---- MODULE Spec2Model ----
(***************************************************************************)
(* Model of the MOS 6502 emulator core of jawr/mos6502 (package cpu):      *)
(* the Cycle() fetch/decode/execute loop, the addressing-mode loader, the  *)
(* opcode handlers, the stack helpers and the trap detector.               *)
(*                                                                         *)
(* Registers keep their Go widths: uint8 values live in 0..255, uint16     *)
(* values in 0..65535, and every arithmetic step is reduced modulo the     *)
(* width of the Go variable it is stored in.                               *)
(***************************************************************************)
EXTENDS Integers, Sequences, FiniteSets, TLC

VARIABLES a, x, y, sp, pc, p, memory, halt, TrapDetector, trapDetector,
          additionalCycles, TotalCycles, StopOnPC, hostCalls, last

vars == <<a, x, y, sp, pc, p, memory, halt, TrapDetector, trapDetector,
          additionalCycles, TotalCycles, StopOnPC, hostCalls, last>>

---------------------------------------------------------------------------
(* Bounds of the exploration.                                              *)

\* Cycle() is explored while TotalCycles is below this cap.
MaxTotalCycles == 52

\* Number of host calls (Reset, SetPC) explored after the initial setup.
MaxHostCalls == 1

---------------------------------------------------------------------------
(* Program constants.                                                      *)

RESVectorLow == 65532

IRQVectorLow == 65534

IRQVectorHigh == 65535

StackOffset == 256

StackTop == 255

trapDetectorBufferSize == 16

Continue == "Continue"

HaltSuccess == "HaltSuccess"

HaltTrap == "HaltTrap"

HaltUnknownInstruction == "HaltUnknownInstruction"

P_Carry == 1

P_Zero == 2

P_InterruptDisable == 4

P_Decimal == 8

P_Break == 16

P_Reserved == 32

P_Overflow == 64

P_Negative == 128

---------------------------------------------------------------------------
(* Fixed-width arithmetic and bit operations.                              *)

u8(n) == n % 256

u16(n) == n % 65536

Bit(v, i) == (v \div (2 ^ i)) % 2

RECURSIVE BitAnd(_, _)
BitAnd(m, n) ==
  IF m = 0 \/ n = 0 THEN 0
  ELSE ((m % 2) * (n % 2)) + (2 * BitAnd(m \div 2, n \div 2))

RECURSIVE BitOr(_, _)
BitOr(m, n) ==
  IF m = 0 THEN n
  ELSE IF n = 0 THEN m
  ELSE (IF m % 2 = 1 \/ n % 2 = 1 THEN 1 ELSE 0) + (2 * BitOr(m \div 2, n \div 2))

RECURSIVE BitXor(_, _)
BitXor(m, n) ==
  IF m = 0 THEN n
  ELSE IF n = 0 THEN m
  ELSE (((m % 2) + (n % 2)) % 2) + (2 * BitXor(m \div 2, n \div 2))

---------------------------------------------------------------------------
(* Memory: a zero-initialised [0x10000]uint8.  The model keeps the bytes   *)
(* that are not zero; every other address reads as zero.                   *)

Read(m, address) == IF address \in DOMAIN m THEN m[address] ELSE 0

ReadWord(m, address) == u16(Read(m, address) + (Read(m, u16(address + 1)) * 256))

Write(m, address, b) ==
  IF b = 0
  THEN [k \in DOMAIN m \ {address} |-> m[k]]
  ELSE [k \in DOMAIN m \cup {address} |-> IF k = address THEN b ELSE m[k]]

---------------------------------------------------------------------------
(* Status flags.                                                           *)

isSet(f, b) == BitAnd(f, b) # 0

set(f, b, v) == IF v THEN BitOr(f, b) ELSE f - BitAnd(f, b)

testAndSetNegative(c, b) == [c EXCEPT !.p = set(c.p, P_Negative, BitAnd(b, 128) = 128)]

\* Variant: only the low four bits are tested.
testAndSetZero_lowNibble(c, b) == [c EXCEPT !.p = set(c.p, P_Zero, b % 16 = 0)]

testAndSetZero(c, b) == [c EXCEPT !.p = set(c.p, P_Zero, b = 0)]

testAndSetCarry(c, b) == [c EXCEPT !.p = set(c.p, P_Carry, b > 255)]

testAndSetOverflow(c, va, vb, sum) ==
  [c EXCEPT !.p = set(c.p, P_Overflow,
                      BitAnd(BitAnd(BitXor(va, sum), BitXor(vb, sum)), 128) = 128)]

---------------------------------------------------------------------------
(* Instruction table.                                                      *)

NewInstruction(opc, cycles, size, mode) ==
  [opc |-> opc, cycles |-> cycles, size |-> size, mode |-> mode]

instructions ==
     (105 :> NewInstruction("ADC", 2, 2, "AM_IMMEDIATE"))
  @@ (101 :> NewInstruction("ADC", 3, 2, "AM_ZEROPAGE"))
  @@ (117 :> NewInstruction("ADC", 4, 2, "AM_ZEROPAGE_X"))
  @@ (109 :> NewInstruction("ADC", 4, 3, "AM_ABSOLUTE"))
  @@ (125 :> NewInstruction("ADC", 4, 3, "AM_INDEXED_X"))
  @@ (121 :> NewInstruction("ADC", 4, 3, "AM_INDEXED_Y"))
  @@ (97 :> NewInstruction("ADC", 6, 2, "AM_PRE_INDEXED"))
  @@ (113 :> NewInstruction("ADC", 5, 2, "AM_POST_INDEXED"))
  @@ (41 :> NewInstruction("AND", 2, 2, "AM_IMMEDIATE"))
  @@ (37 :> NewInstruction("AND", 3, 2, "AM_ZEROPAGE"))
  @@ (53 :> NewInstruction("AND", 4, 2, "AM_ZEROPAGE_X"))
  @@ (45 :> NewInstruction("AND", 4, 3, "AM_ABSOLUTE"))
  @@ (61 :> NewInstruction("AND", 4, 3, "AM_INDEXED_X"))
  @@ (57 :> NewInstruction("AND", 4, 3, "AM_INDEXED_Y"))
  @@ (33 :> NewInstruction("AND", 6, 2, "AM_PRE_INDEXED"))
  @@ (49 :> NewInstruction("AND", 5, 2, "AM_POST_INDEXED"))
  @@ (10 :> NewInstruction("ASL", 2, 1, "AM_IMPLIED"))
  @@ (6 :> NewInstruction("ASL", 5, 2, "AM_ZEROPAGE"))
  @@ (22 :> NewInstruction("ASL", 6, 2, "AM_ZEROPAGE_X"))
  @@ (14 :> NewInstruction("ASL", 6, 3, "AM_ABSOLUTE"))
  @@ (30 :> NewInstruction("ASL", 7, 3, "AM_INDEXED_X"))
  @@ (144 :> NewInstruction("BCC", 2, 2, "AM_RELATIVE"))
  @@ (176 :> NewInstruction("BCS", 2, 2, "AM_RELATIVE"))
  @@ (240 :> NewInstruction("BEQ", 2, 2, "AM_RELATIVE"))
  @@ (36 :> NewInstruction("BIT", 3, 2, "AM_ZEROPAGE"))
  @@ (44 :> NewInstruction("BIT", 4, 3, "AM_ABSOLUTE"))
  @@ (48 :> NewInstruction("BMI", 2, 2, "AM_RELATIVE"))
  @@ (208 :> NewInstruction("BNE", 2, 2, "AM_RELATIVE"))
  @@ (16 :> NewInstruction("BPL", 2, 2, "AM_RELATIVE"))
  @@ (0 :> NewInstruction("BRK", 7, 1, "AM_IMPLIED"))
  @@ (80 :> NewInstruction("BVC", 2, 2, "AM_RELATIVE"))
  @@ (112 :> NewInstruction("BVS", 2, 2, "AM_RELATIVE"))
  @@ (24 :> NewInstruction("CLC", 2, 1, "AM_IMPLIED"))
  @@ (216 :> NewInstruction("CLD", 2, 1, "AM_IMPLIED"))
  @@ (88 :> NewInstruction("CLI", 2, 1, "AM_IMPLIED"))
  @@ (184 :> NewInstruction("CLV", 2, 1, "AM_IMPLIED"))
  @@ (201 :> NewInstruction("CMP", 2, 2, "AM_IMMEDIATE"))
  @@ (197 :> NewInstruction("CMP", 3, 2, "AM_ZEROPAGE"))
  @@ (213 :> NewInstruction("CMP", 4, 2, "AM_ZEROPAGE_X"))
  @@ (205 :> NewInstruction("CMP", 4, 3, "AM_ABSOLUTE"))
  @@ (221 :> NewInstruction("CMP", 4, 3, "AM_INDEXED_X"))
  @@ (217 :> NewInstruction("CMP", 4, 3, "AM_INDEXED_Y"))
  @@ (193 :> NewInstruction("CMP", 6, 2, "AM_PRE_INDEXED"))
  @@ (209 :> NewInstruction("CMP", 5, 2, "AM_POST_INDEXED"))
  @@ (224 :> NewInstruction("CPX", 2, 2, "AM_IMMEDIATE"))
  @@ (228 :> NewInstruction("CPX", 3, 2, "AM_ZEROPAGE"))
  @@ (236 :> NewInstruction("CPX", 4, 3, "AM_ABSOLUTE"))
  @@ (192 :> NewInstruction("CPY", 2, 2, "AM_IMMEDIATE"))
  @@ (196 :> NewInstruction("CPY", 3, 2, "AM_ZEROPAGE"))
  @@ (204 :> NewInstruction("CPY", 4, 3, "AM_ABSOLUTE"))
  @@ (198 :> NewInstruction("DEC", 5, 2, "AM_ZEROPAGE"))
  @@ (214 :> NewInstruction("DEC", 6, 2, "AM_ZEROPAGE_X"))
  @@ (206 :> NewInstruction("DEC", 6, 3, "AM_ABSOLUTE"))
  @@ (202 :> NewInstruction("DEX", 2, 1, "AM_IMPLIED"))
  @@ (136 :> NewInstruction("DEY", 2, 1, "AM_IMPLIED"))
  @@ (73 :> NewInstruction("EOR", 2, 2, "AM_IMMEDIATE"))
  @@ (69 :> NewInstruction("EOR", 3, 2, "AM_ZEROPAGE"))
  @@ (85 :> NewInstruction("EOR", 4, 2, "AM_ZEROPAGE_X"))
  @@ (77 :> NewInstruction("EOR", 4, 3, "AM_ABSOLUTE"))
  @@ (93 :> NewInstruction("EOR", 4, 3, "AM_INDEXED_X"))
  @@ (89 :> NewInstruction("EOR", 4, 3, "AM_INDEXED_Y"))
  @@ (65 :> NewInstruction("EOR", 6, 2, "AM_PRE_INDEXED"))
  @@ (81 :> NewInstruction("EOR", 5, 2, "AM_POST_INDEXED"))
  @@ (230 :> NewInstruction("INC", 5, 2, "AM_ZEROPAGE"))
  @@ (246 :> NewInstruction("INC", 6, 2, "AM_ZEROPAGE_X"))
  @@ (238 :> NewInstruction("INC", 6, 3, "AM_ABSOLUTE"))
  @@ (254 :> NewInstruction("INC", 7, 3, "AM_INDEXED_X"))
  @@ (232 :> NewInstruction("INX", 2, 1, "AM_IMPLIED"))
  @@ (200 :> NewInstruction("INY", 2, 1, "AM_IMPLIED"))
  @@ (76 :> NewInstruction("JMP", 3, 3, "AM_ABSOLUTE"))
  @@ (108 :> NewInstruction("JMP", 5, 3, "AM_INDIRECT"))
  @@ (32 :> NewInstruction("JSR", 6, 3, "AM_ABSOLUTE"))
  @@ (169 :> NewInstruction("LDA", 2, 2, "AM_IMMEDIATE"))
  @@ (165 :> NewInstruction("LDA", 3, 2, "AM_ZEROPAGE"))
  @@ (181 :> NewInstruction("LDA", 4, 2, "AM_ZEROPAGE_X"))
  @@ (173 :> NewInstruction("LDA", 4, 3, "AM_ABSOLUTE"))
  @@ (189 :> NewInstruction("LDA", 4, 3, "AM_INDEXED_X"))
  @@ (185 :> NewInstruction("LDA", 4, 3, "AM_INDEXED_Y"))
  @@ (161 :> NewInstruction("LDA", 6, 2, "AM_PRE_INDEXED"))
  @@ (177 :> NewInstruction("LDA", 5, 2, "AM_POST_INDEXED"))
  @@ (162 :> NewInstruction("LDX", 2, 2, "AM_IMMEDIATE"))
  @@ (166 :> NewInstruction("LDX", 3, 2, "AM_ZEROPAGE"))
  @@ (182 :> NewInstruction("LDX", 4, 2, "AM_ZEROPAGE_Y"))
  @@ (174 :> NewInstruction("LDX", 4, 3, "AM_ABSOLUTE"))
  @@ (190 :> NewInstruction("LDX", 4, 3, "AM_INDEXED_Y"))
  @@ (160 :> NewInstruction("LDY", 2, 2, "AM_IMMEDIATE"))
  @@ (164 :> NewInstruction("LDY", 3, 2, "AM_ZEROPAGE"))
  @@ (180 :> NewInstruction("LDY", 4, 2, "AM_ZEROPAGE_Y"))
  @@ (172 :> NewInstruction("LDY", 4, 3, "AM_ABSOLUTE"))
  @@ (188 :> NewInstruction("LDY", 4, 3, "AM_INDEXED_Y"))
  @@ (74 :> NewInstruction("LSR", 2, 1, "AM_IMPLIED"))
  @@ (70 :> NewInstruction("LSR", 5, 2, "AM_ZEROPAGE"))
  @@ (86 :> NewInstruction("LSR", 6, 2, "AM_ZEROPAGE_X"))
  @@ (78 :> NewInstruction("LSR", 6, 3, "AM_ABSOLUTE"))
  @@ (94 :> NewInstruction("LSR", 7, 3, "AM_INDEXED_X"))
  @@ (234 :> NewInstruction("NOP", 2, 1, "AM_IMPLIED"))
  @@ (9 :> NewInstruction("ORA", 2, 2, "AM_IMMEDIATE"))
  @@ (5 :> NewInstruction("ORA", 3, 2, "AM_ZEROPAGE"))
  @@ (21 :> NewInstruction("ORA", 4, 2, "AM_ZEROPAGE_X"))
  @@ (13 :> NewInstruction("ORA", 4, 3, "AM_ABSOLUTE"))
  @@ (29 :> NewInstruction("ORA", 4, 3, "AM_INDEXED_X"))
  @@ (25 :> NewInstruction("ORA", 4, 3, "AM_INDEXED_Y"))
  @@ (1 :> NewInstruction("ORA", 6, 2, "AM_PRE_INDEXED"))
  @@ (17 :> NewInstruction("ORA", 5, 2, "AM_POST_INDEXED"))
  @@ (72 :> NewInstruction("PHA", 3, 1, "AM_IMPLIED"))
  @@ (8 :> NewInstruction("PHP", 3, 1, "AM_IMPLIED"))
  @@ (104 :> NewInstruction("PLA", 4, 1, "AM_IMPLIED"))
  @@ (40 :> NewInstruction("PLP", 4, 1, "AM_IMPLIED"))
  @@ (42 :> NewInstruction("ROL", 2, 1, "AM_IMPLIED"))
  @@ (38 :> NewInstruction("ROL", 5, 2, "AM_ZEROPAGE"))
  @@ (54 :> NewInstruction("ROL", 6, 2, "AM_ZEROPAGE_X"))
  @@ (46 :> NewInstruction("ROL", 6, 3, "AM_ABSOLUTE"))
  @@ (62 :> NewInstruction("ROL", 7, 3, "AM_INDEXED_X"))
  @@ (106 :> NewInstruction("ROR", 2, 1, "AM_IMPLIED"))
  @@ (102 :> NewInstruction("ROR", 5, 2, "AM_ZEROPAGE"))
  @@ (118 :> NewInstruction("ROR", 6, 2, "AM_ZEROPAGE_X"))
  @@ (110 :> NewInstruction("ROR", 6, 3, "AM_ABSOLUTE"))
  @@ (126 :> NewInstruction("ROR", 7, 3, "AM_INDEXED_X"))
  @@ (64 :> NewInstruction("RTI", 6, 1, "AM_IMPLIED"))
  @@ (96 :> NewInstruction("RTS", 6, 1, "AM_IMPLIED"))
  @@ (233 :> NewInstruction("SBC", 2, 2, "AM_IMMEDIATE"))
  @@ (229 :> NewInstruction("SBC", 3, 2, "AM_ZEROPAGE"))
  @@ (245 :> NewInstruction("SBC", 4, 2, "AM_ZEROPAGE_X"))
  @@ (237 :> NewInstruction("SBC", 4, 3, "AM_ABSOLUTE"))
  @@ (253 :> NewInstruction("SBC", 4, 3, "AM_INDEXED_X"))
  @@ (249 :> NewInstruction("SBC", 4, 3, "AM_INDEXED_Y"))
  @@ (225 :> NewInstruction("SBC", 6, 2, "AM_PRE_INDEXED"))
  @@ (241 :> NewInstruction("SBC", 5, 2, "AM_POST_INDEXED"))
  @@ (56 :> NewInstruction("SEC", 2, 1, "AM_IMPLIED"))
  @@ (248 :> NewInstruction("SED", 2, 1, "AM_IMPLIED"))
  @@ (120 :> NewInstruction("SEI", 2, 1, "AM_IMPLIED"))
  @@ (133 :> NewInstruction("STA", 3, 2, "AM_ZEROPAGE"))
  @@ (149 :> NewInstruction("STA", 4, 2, "AM_ZEROPAGE_X"))
  @@ (141 :> NewInstruction("STA", 4, 3, "AM_ABSOLUTE"))
  @@ (157 :> NewInstruction("STA", 5, 3, "AM_INDEXED_X"))
  @@ (153 :> NewInstruction("STA", 5, 3, "AM_INDEXED_Y"))
  @@ (129 :> NewInstruction("STA", 6, 2, "AM_PRE_INDEXED"))
  @@ (145 :> NewInstruction("STA", 6, 2, "AM_POST_INDEXED"))
  @@ (134 :> NewInstruction("STX", 3, 2, "AM_ZEROPAGE"))
  @@ (150 :> NewInstruction("STX", 4, 2, "AM_ZEROPAGE_Y"))
  @@ (142 :> NewInstruction("STX", 4, 3, "AM_ABSOLUTE"))
  @@ (132 :> NewInstruction("STY", 3, 2, "AM_ZEROPAGE"))
  @@ (148 :> NewInstruction("STY", 4, 2, "AM_ZEROPAGE_X"))
  @@ (140 :> NewInstruction("STY", 4, 3, "AM_ABSOLUTE"))
  @@ (170 :> NewInstruction("TAX", 2, 1, "AM_IMPLIED"))
  @@ (168 :> NewInstruction("TAY", 2, 1, "AM_IMPLIED"))
  @@ (186 :> NewInstruction("TSX", 2, 1, "AM_IMPLIED"))
  @@ (138 :> NewInstruction("TXA", 2, 1, "AM_IMPLIED"))
  @@ (154 :> NewInstruction("TXS", 2, 1, "AM_IMPLIED"))
  @@ (152 :> NewInstruction("TYA", 2, 1, "AM_IMPLIED"))

---------------------------------------------------------------------------
(* Addressing modes: instruction.load.  The result is the operand address  *)
(* and the cpu with additionalCycles raised on a page crossing.            *)

\* Variant: compares the low bytes instead of the pages.
crossedPageBoundary_lowByte(oldAddress, newAddress) ==
  (oldAddress % 256) # (newAddress % 256)

crossedPageBoundary(oldAddress, newAddress) ==
  (oldAddress \div 256) # (newAddress \div 256)

Loaded(address, c) == [address |-> address, cpu |-> c]

LoadedIndexed(address, offsetAddress, c) ==
  Loaded(offsetAddress,
         IF crossedPageBoundary(address, offsetAddress)
         THEN [c EXCEPT !.additionalCycles = u8(@ + 1)]
         ELSE c)

\* Variant: the zero-page index addition carries into the high byte.
load_zeroPageCarries(ins, c) ==
  LET lo == Read(c.memory, u16(c.pc + 1))
      hi == Read(c.memory, u16(c.pc + 2))
      abs == u16(hi * 256 + lo)
  IN CASE ins.mode = "AM_IMPLIED" -> Loaded(0, c)
       [] ins.mode = "AM_IMMEDIATE" -> Loaded(u16(c.pc + 1), c)
       [] ins.mode = "AM_ABSOLUTE" -> Loaded(abs, c)
       [] ins.mode = "AM_ZEROPAGE" -> Loaded(lo, c)
       [] ins.mode = "AM_ZEROPAGE_X" -> Loaded(u16(lo + c.x), c)
       [] ins.mode = "AM_ZEROPAGE_Y" -> Loaded(u16(lo + c.y), c)
       [] ins.mode = "AM_INDEXED_X" -> LoadedIndexed(abs, u16(abs + c.x), c)
       [] ins.mode = "AM_INDEXED_Y" -> LoadedIndexed(abs, u16(abs + c.y), c)
       [] ins.mode = "AM_PRE_INDEXED" -> Loaded(ReadWord(c.memory, u8(lo + c.x)), c)
       [] ins.mode = "AM_POST_INDEXED" ->
            LET lookup == ReadWord(c.memory, lo)
            IN LoadedIndexed(lookup, u16(lookup + c.y), c)
       [] ins.mode = "AM_INDIRECT" -> Loaded(ReadWord(c.memory, abs), c)
       [] ins.mode = "AM_RELATIVE" -> Loaded(lo, c)

load(ins, c) ==
  LET lo == Read(c.memory, u16(c.pc + 1))
      hi == Read(c.memory, u16(c.pc + 2))
      abs == u16(hi * 256 + lo)
  IN CASE ins.mode = "AM_IMPLIED" -> Loaded(0, c)
       [] ins.mode = "AM_IMMEDIATE" -> Loaded(u16(c.pc + 1), c)
       [] ins.mode = "AM_ABSOLUTE" -> Loaded(abs, c)
       [] ins.mode = "AM_ZEROPAGE" -> Loaded(lo, c)
       [] ins.mode = "AM_ZEROPAGE_X" -> Loaded(u8(lo + c.x), c)
       [] ins.mode = "AM_ZEROPAGE_Y" -> Loaded(u8(lo + c.y), c)
       [] ins.mode = "AM_INDEXED_X" -> LoadedIndexed(abs, u16(abs + c.x), c)
       [] ins.mode = "AM_INDEXED_Y" -> LoadedIndexed(abs, u16(abs + c.y), c)
       [] ins.mode = "AM_PRE_INDEXED" -> Loaded(ReadWord(c.memory, u8(lo + c.x)), c)
       [] ins.mode = "AM_POST_INDEXED" ->
            LET lookup == ReadWord(c.memory, lo)
            IN LoadedIndexed(lookup, u16(lookup + c.y), c)
       [] ins.mode = "AM_INDIRECT" -> Loaded(ReadWord(c.memory, abs), c)
       [] ins.mode = "AM_RELATIVE" -> Loaded(lo, c)

---------------------------------------------------------------------------
(* Stack.                                                                  *)

stackAddress(s) == BitOr(StackOffset, s)

\* Variant: SP stays at 0x00 instead of wrapping to 0xFF.
push_saturating(c, b) ==
  [c EXCEPT !.memory = Write(@, stackAddress(c.sp), b),
            !.sp = IF c.sp = 0 THEN 0 ELSE c.sp - 1]

push(c, b) ==
  [c EXCEPT !.memory = Write(@, stackAddress(c.sp), b),
            !.sp = u8(c.sp + 255)]

\* pop returns the cpu with sp advanced; popped(c) is the byte it returns.
pop(c) == [c EXCEPT !.sp = u8(c.sp + 1)]

\* Variant: the byte is read before SP is incremented.
popped_beforeIncrement(c) == Read(c.memory, stackAddress(c.sp))

popped(c) == Read(c.memory, stackAddress(u8(c.sp + 1)))

---------------------------------------------------------------------------
(* Opcode handlers.  Each takes the instruction, the operand address and   *)
(* the cpu, and returns the cpu after the handler.                         *)

carryIn(c) == IF isSet(c.p, P_Carry) THEN 1 ELSE 0

setNZ(c, b) == testAndSetZero(testAndSetNegative(c, b), b)

\* Variant: the carry flag is not added in.
adc_withoutCarry(ins, address, c) ==
  LET va == c.a
      m == Read(c.memory, address)
      sum == u16(va + m)
      c1 == [c EXCEPT !.a = BitAnd(sum, 255)]
      c2 == testAndSetCarry(c1, sum)
      c3 == testAndSetNegative(c2, c1.a)
      c4 == testAndSetZero(c3, c1.a)
  IN testAndSetOverflow(c4, va, m, c1.a)

adc(ins, address, c) ==
  LET va == c.a
      m == Read(c.memory, address)
      sum == u16(va + m + carryIn(c))
      c1 == [c EXCEPT !.a = BitAnd(sum, 255)]
      c2 == testAndSetCarry(c1, sum)
      c3 == testAndSetNegative(c2, c1.a)
      c4 == testAndSetZero(c3, c1.a)
  IN testAndSetOverflow(c4, va, m, c1.a)

and(ins, address, c) ==
  LET b == Read(c.memory, address)
      c1 == [c EXCEPT !.a = BitAnd(c.a, b)]
  IN setNZ(c1, c1.a)

asl(ins, address, c) ==
  LET accumulator == ins.mode = "AM_IMPLIED"
      value == IF accumulator THEN c.a ELSE Read(c.memory, address)
      shifted == u16(value * 2)
      c1 == IF accumulator
            THEN [c EXCEPT !.a = u8(shifted)]
            ELSE [c EXCEPT !.memory = Write(@, address, u8(shifted))]
  IN testAndSetCarry(setNZ(c1, u8(shifted)), shifted)

\* Variant: the offset is added as an unsigned byte.
branch_unsigned(c, offset) ==
  LET begin == c.pc
      target == u16(c.pc + offset)
      extra == IF (begin \div 256) # (target \div 256) THEN 2 ELSE 1
  IN [c EXCEPT !.pc = target, !.additionalCycles = u8(@ + extra)]

branch(c, offset) ==
  LET begin == c.pc
      target == IF offset < 128
                THEN u16(c.pc + offset)
                ELSE u16(c.pc + 65536 - (256 - offset))
      extra == IF (begin \div 256) # (target \div 256) THEN 2 ELSE 1
  IN [c EXCEPT !.pc = target, !.additionalCycles = u8(@ + extra)]

bcc(ins, address, c) == IF isSet(c.p, P_Carry) THEN c ELSE branch(c, address)

bcs(ins, address, c) == IF ~isSet(c.p, P_Carry) THEN c ELSE branch(c, address)

beq(ins, address, c) == IF ~isSet(c.p, P_Zero) THEN c ELSE branch(c, address)

bmi(ins, address, c) == IF ~isSet(c.p, P_Negative) THEN c ELSE branch(c, address)

bne(ins, address, c) == IF isSet(c.p, P_Zero) THEN c ELSE branch(c, address)

bpl(ins, address, c) == IF isSet(c.p, P_Negative) THEN c ELSE branch(c, address)

bvc(ins, address, c) == IF isSet(c.p, P_Overflow) THEN c ELSE branch(c, address)

bvs(ins, address, c) == IF ~isSet(c.p, P_Overflow) THEN c ELSE branch(c, address)

\* Variant: N and V are taken from A AND M.
bit_flagsOfResult(ins, address, c) ==
  LET value == BitAnd(c.a, Read(c.memory, address))
      c1 == testAndSetZero(c, value)
      c2 == [c1 EXCEPT !.p = set(@, P_Negative, BitAnd(value, 128) # 0)]
  IN [c2 EXCEPT !.p = set(@, P_Overflow, BitAnd(value, 64) # 0)]

bit(ins, address, c) ==
  LET value == Read(c.memory, address)
      c1 == testAndSetZero(c, BitAnd(c.a, value))
      c2 == [c1 EXCEPT !.p = set(@, P_Negative, BitAnd(value, 128) # 0)]
  IN [c2 EXCEPT !.p = set(@, P_Overflow, BitAnd(value, 64) # 0)]

\* Variant: the return address is pushed low byte first.
brk_lowFirst(ins, address, c) ==
  LET c1 == [c EXCEPT !.pc = u16(@ + 1)]
      c2 == push(c1, BitAnd(c1.pc, 255))
      c3 == push(c2, u8(c2.pc \div 256))
      c4 == [c3 EXCEPT !.p = set(@, P_Break, TRUE)]
      c5 == push(c4, c4.p)
      c6 == [c5 EXCEPT !.p = set(@, P_InterruptDisable, TRUE)]
      hi == Read(c6.memory, IRQVectorHigh) * 256
      lo == Read(c6.memory, IRQVectorLow)
  IN [c6 EXCEPT !.pc = BitOr(lo, hi)]

brk(ins, address, c) ==
  LET c1 == [c EXCEPT !.pc = u16(@ + 1)]
      c2 == push(c1, u8(c1.pc \div 256))
      c3 == push(c2, BitAnd(c2.pc, 255))
      c4 == [c3 EXCEPT !.p = set(@, P_Break, TRUE)]
      c5 == push(c4, c4.p)
      c6 == [c5 EXCEPT !.p = set(@, P_InterruptDisable, TRUE)]
      hi == Read(c6.memory, IRQVectorHigh) * 256
      lo == Read(c6.memory, IRQVectorLow)
  IN [c6 EXCEPT !.pc = BitOr(lo, hi)]

clc(ins, address, c) == [c EXCEPT !.p = set(@, P_Carry, FALSE)]

cld(ins, address, c) == [c EXCEPT !.p = set(@, P_Decimal, FALSE)]

cli(ins, address, c) == [c EXCEPT !.p = set(@, P_InterruptDisable, FALSE)]

clv(ins, address, c) == [c EXCEPT !.p = set(@, P_Overflow, FALSE)]

compare(c, reg, b) ==
  LET sub == u8(reg + 256 - b)
      c1 == [c EXCEPT !.p = set(@, P_Carry, reg >= b)]
  IN setNZ(c1, sub)

cmp(ins, address, c) == compare(c, c.a, Read(c.memory, address))

cpx(ins, address, c) == compare(c, c.x, Read(c.memory, address))

cpy(ins, address, c) == compare(c, c.y, Read(c.memory, address))

dec(ins, address, c) ==
  LET b == u8(Read(c.memory, address) + 255)
      c1 == [c EXCEPT !.memory = Write(@, address, b)]
  IN setNZ(c1, b)

dex(ins, address, c) ==
  LET c1 == [c EXCEPT !.x = u8(@ + 255)] IN setNZ(c1, c1.x)

dey(ins, address, c) ==
  LET c1 == [c EXCEPT !.y = u8(@ + 255)] IN setNZ(c1, c1.y)

eor(ins, address, c) ==
  LET value == Read(c.memory, address)
      c1 == [c EXCEPT !.a = BitXor(c.a, value)]
  IN setNZ(c1, c1.a)

inx(ins, address, c) ==
  LET c1 == [c EXCEPT !.x = u8(@ + 1)] IN setNZ(c1, c1.x)

iny(ins, address, c) ==
  LET c1 == [c EXCEPT !.y = u8(@ + 1)] IN setNZ(c1, c1.y)

inc(ins, address, c) ==
  LET c1 == [c EXCEPT !.memory = Write(@, address, u8(Read(c.memory, address) + 1))]
      value == Read(c1.memory, address)
  IN setNZ(c1, value)

jmp(ins, address, c) == [c EXCEPT !.pc = address]

\* Variant: the address of the next instruction is pushed.
jsr_pushesNext(ins, address, c) ==
  LET ret == c.pc
      hi == u8(ret \div 256)
      lo == u8(ret)
      c1 == push(c, hi)
      c2 == push(c1, lo)
  IN [c2 EXCEPT !.pc = address]

jsr(ins, address, c) ==
  LET ret == u16(c.pc + 65535)
      hi == u8(ret \div 256)
      lo == u8(ret)
      c1 == push(c, hi)
      c2 == push(c1, lo)
  IN [c2 EXCEPT !.pc = address]

lda(ins, address, c) ==
  LET value == ReadWord(c.memory, address)
      c1 == [c EXCEPT !.a = u8(value)]
  IN setNZ(c1, c1.a)

ldx(ins, address, c) ==
  LET value == ReadWord(c.memory, address)
      c1 == [c EXCEPT !.x = u8(value)]
  IN setNZ(c1, c1.x)

ldy(ins, address, c) ==
  LET value == ReadWord(c.memory, address)
      c1 == [c EXCEPT !.y = u8(value)]
  IN setNZ(c1, c1.y)

lsr(ins, address, c) ==
  LET accumulator == ins.mode = "AM_IMPLIED"
      value == IF accumulator THEN c.a ELSE Read(c.memory, address)
      shifted == value \div 2
      c1 == IF accumulator
            THEN [c EXCEPT !.a = u8(shifted)]
            ELSE [c EXCEPT !.memory = Write(@, address, u8(shifted))]
      c2 == testAndSetZero(c1, u8(shifted))
      c3 == testAndSetCarry(c2, shifted)
  IN [c3 EXCEPT !.p = set(@, P_Negative, FALSE)]

nop(ins, address, c) == c

ora(ins, address, c) ==
  LET value == Read(c.memory, address)
      c1 == [c EXCEPT !.a = BitOr(c.a, value)]
  IN setNZ(c1, c1.a)

\* Variant: X is pushed in place of A.
pha_pushesX(ins, address, c) == push(c, c.x)

pha(ins, address, c) == push(c, c.a)

php(ins, address, c) == push(c, BitOr(BitOr(c.p, P_Break), P_Reserved))

\* Variant: the slot the byte is pulled from is cleared.
pla_clearsSlot(ins, address, c) ==
  LET c1 == [pop(c) EXCEPT !.a = popped(c),
                           !.memory = Write(@, stackAddress(u8(c.sp + 1)), 0)]
  IN setNZ(c1, c1.a)

pla(ins, address, c) ==
  LET c1 == [pop(c) EXCEPT !.a = popped(c)] IN setNZ(c1, c1.a)

\* Variant: the popped byte is stored without forcing the reserved bit.
plp_unmasked(ins, address, c) == [pop(c) EXCEPT !.p = popped(c)]

plp(ins, address, c) ==
  LET c1 == [pop(c) EXCEPT !.p = popped(c)]
  IN [c1 EXCEPT !.p = set(@, P_Reserved, TRUE)]

rol(ins, address, c) ==
  LET accumulator == ins.mode = "AM_IMPLIED"
      value == IF accumulator THEN c.a ELSE Read(c.memory, address)
      rolled == BitOr(u16(value * 2), carryIn(c))
      c1 == IF accumulator
            THEN [c EXCEPT !.a = u8(rolled)]
            ELSE [c EXCEPT !.memory = Write(@, address, u8(rolled))]
      c2 == [c1 EXCEPT !.p = set(@, P_Carry, BitAnd(value, 128) = 128)]
  IN setNZ(c2, u8(rolled))

\* Variant: the carry is not rotated into bit 7.
ror_carryDropped(ins, address, c) ==
  LET accumulator == ins.mode = "AM_IMPLIED"
      value == IF accumulator THEN c.a ELSE Read(c.memory, address)
      rolled == value \div 2
      c1 == IF accumulator
            THEN [c EXCEPT !.a = u8(rolled)]
            ELSE [c EXCEPT !.memory = Write(@, address, u8(rolled))]
      c2 == [c1 EXCEPT !.p = set(@, P_Carry, BitAnd(value, 1) = 1)]
  IN setNZ(c2, u8(rolled))

ror(ins, address, c) ==
  LET accumulator == ins.mode = "AM_IMPLIED"
      value == IF accumulator THEN c.a ELSE Read(c.memory, address)
      rolled == BitOr(value \div 2, carryIn(c) * 128)
      c1 == IF accumulator
            THEN [c EXCEPT !.a = u8(rolled)]
            ELSE [c EXCEPT !.memory = Write(@, address, u8(rolled))]
      c2 == [c1 EXCEPT !.p = set(@, P_Carry, BitAnd(value, 1) = 1)]
  IN setNZ(c2, u8(rolled))

\* Variant: the B flag of the popped byte is kept.
rti_breakKept(ins, address, c) ==
  LET c1 == [pop(c) EXCEPT !.p = popped(c)]
      c3 == [c1 EXCEPT !.p = set(@, P_Reserved, TRUE)]
      lo == popped(c3)
      c4 == pop(c3)
      hi == popped(c4)
      c5 == pop(c4)
  IN [c5 EXCEPT !.pc = BitOr(hi * 256, lo)]

rti(ins, address, c) ==
  LET c1 == [pop(c) EXCEPT !.p = popped(c)]
      c2 == [c1 EXCEPT !.p = set(@, P_Reserved, TRUE)]
      c3 == [c2 EXCEPT !.p = set(@, P_Break, FALSE)]
      lo == popped(c3)
      c4 == pop(c3)
      hi == popped(c4)
      c5 == pop(c4)
  IN [c5 EXCEPT !.pc = BitOr(hi * 256, lo)]

\* Variant: the popped address is not incremented.
rts_withoutIncrement(ins, address, c) ==
  LET lo == popped(c)
      c1 == pop(c)
      hi == popped(c1)
      c2 == pop(c1)
  IN [c2 EXCEPT !.pc = u16(BitOr(lo, hi * 256))]

rts(ins, address, c) ==
  LET lo == popped(c)
      c1 == pop(c)
      hi == popped(c1)
      c2 == pop(c1)
  IN [c2 EXCEPT !.pc = u16(BitOr(lo, hi * 256) + 1)]

\* Variant: with D set, a low digit above 9 is corrected by 6.
sbc_decimalAdjusted(ins, address, c) ==
  LET va == c.a
      m == Read(c.memory, address)
      sum == u16(va + 65536 - m + carryIn(c))
      low == BitAnd(sum, 255)
      res == IF isSet(c.p, P_Decimal) /\ low % 16 > 9 THEN u8(low + 250) ELSE low
      c1 == [c EXCEPT !.a = res]
      c2 == [c1 EXCEPT !.p = set(@, P_Carry, sum < 256)]
      c3 == setNZ(c2, c1.a)
  IN [c3 EXCEPT !.p = set(@, P_Overflow,
                          BitAnd(BitXor(va, m), 128) = 128
                          /\ BitAnd(BitXor(va, c1.a), 128) = 128)]

sbc(ins, address, c) ==
  LET va == c.a
      m == Read(c.memory, address)
      sum == u16(va + 65536 - m + carryIn(c))
      c1 == [c EXCEPT !.a = BitAnd(sum, 255)]
      c2 == [c1 EXCEPT !.p = set(@, P_Carry, sum < 256)]
      c3 == setNZ(c2, c1.a)
  IN [c3 EXCEPT !.p = set(@, P_Overflow,
                          BitAnd(BitXor(va, m), 128) = 128
                          /\ BitAnd(BitXor(va, c1.a), 128) = 128)]

sec(ins, address, c) == [c EXCEPT !.p = set(@, P_Carry, TRUE)]

sed(ins, address, c) == [c EXCEPT !.p = set(@, P_Decimal, TRUE)]

sei(ins, address, c) == [c EXCEPT !.p = set(@, P_InterruptDisable, TRUE)]

sta(ins, address, c) == [c EXCEPT !.memory = Write(@, address, c.a)]

stx(ins, address, c) == [c EXCEPT !.memory = Write(@, address, c.x)]

sty(ins, address, c) == [c EXCEPT !.memory = Write(@, address, c.y)]

tax(ins, address, c) ==
  LET c1 == [c EXCEPT !.x = c.a] IN setNZ(c1, c1.x)

tay(ins, address, c) ==
  LET c1 == [c EXCEPT !.y = c.a] IN setNZ(c1, c1.y)

tsx(ins, address, c) ==
  LET c1 == [c EXCEPT !.x = u8(c.sp)] IN setNZ(c1, c1.x)

txa(ins, address, c) ==
  LET c1 == [c EXCEPT !.a = c.x] IN setNZ(c1, c1.a)

\* Variant: Z and N are set from the transferred byte, as TSX does.
txs_setsFlags(ins, address, c) ==
  LET c1 == [c EXCEPT !.sp = u8(256 + c.x)] IN setNZ(c1, c1.sp)

\* sp is a uint8 field: the sum 0x100 + x is stored in its low byte.
txs(ins, address, c) == [c EXCEPT !.sp = u8(256 + c.x)]

tya(ins, address, c) ==
  LET c1 == [c EXCEPT !.a = c.y] IN setNZ(c1, c1.a)

execute(ins, address, c) ==
  CASE ins.opc = "ADC" -> adc(ins, address, c)
    [] ins.opc = "AND" -> and(ins, address, c)
    [] ins.opc = "ASL" -> asl(ins, address, c)
    [] ins.opc = "BCC" -> bcc(ins, address, c)
    [] ins.opc = "BCS" -> bcs(ins, address, c)
    [] ins.opc = "BEQ" -> beq(ins, address, c)
    [] ins.opc = "BIT" -> bit(ins, address, c)
    [] ins.opc = "BMI" -> bmi(ins, address, c)
    [] ins.opc = "BNE" -> bne(ins, address, c)
    [] ins.opc = "BPL" -> bpl(ins, address, c)
    [] ins.opc = "BRK" -> brk(ins, address, c)
    [] ins.opc = "BVC" -> bvc(ins, address, c)
    [] ins.opc = "BVS" -> bvs(ins, address, c)
    [] ins.opc = "CLC" -> clc(ins, address, c)
    [] ins.opc = "CLD" -> cld(ins, address, c)
    [] ins.opc = "CLI" -> cli(ins, address, c)
    [] ins.opc = "CLV" -> clv(ins, address, c)
    [] ins.opc = "CMP" -> cmp(ins, address, c)
    [] ins.opc = "CPX" -> cpx(ins, address, c)
    [] ins.opc = "CPY" -> cpy(ins, address, c)
    [] ins.opc = "DEC" -> dec(ins, address, c)
    [] ins.opc = "DEX" -> dex(ins, address, c)
    [] ins.opc = "DEY" -> dey(ins, address, c)
    [] ins.opc = "EOR" -> eor(ins, address, c)
    [] ins.opc = "INC" -> inc(ins, address, c)
    [] ins.opc = "INX" -> inx(ins, address, c)
    [] ins.opc = "INY" -> iny(ins, address, c)
    [] ins.opc = "JMP" -> jmp(ins, address, c)
    [] ins.opc = "JSR" -> jsr(ins, address, c)
    [] ins.opc = "LDA" -> lda(ins, address, c)
    [] ins.opc = "LDX" -> ldx(ins, address, c)
    [] ins.opc = "LDY" -> ldy(ins, address, c)
    [] ins.opc = "LSR" -> lsr(ins, address, c)
    [] ins.opc = "NOP" -> nop(ins, address, c)
    [] ins.opc = "ORA" -> ora(ins, address, c)
    [] ins.opc = "PHA" -> pha(ins, address, c)
    [] ins.opc = "PHP" -> php(ins, address, c)
    [] ins.opc = "PLA" -> pla(ins, address, c)
    [] ins.opc = "PLP" -> plp(ins, address, c)
    [] ins.opc = "ROL" -> rol(ins, address, c)
    [] ins.opc = "ROR" -> ror(ins, address, c)
    [] ins.opc = "RTI" -> rti(ins, address, c)
    [] ins.opc = "RTS" -> rts(ins, address, c)
    [] ins.opc = "SBC" -> sbc(ins, address, c)
    [] ins.opc = "SEC" -> sec(ins, address, c)
    [] ins.opc = "SED" -> sed(ins, address, c)
    [] ins.opc = "SEI" -> sei(ins, address, c)
    [] ins.opc = "STA" -> sta(ins, address, c)
    [] ins.opc = "STX" -> stx(ins, address, c)
    [] ins.opc = "STY" -> sty(ins, address, c)
    [] ins.opc = "TAX" -> tax(ins, address, c)
    [] ins.opc = "TAY" -> tay(ins, address, c)
    [] ins.opc = "TSX" -> tsx(ins, address, c)
    [] ins.opc = "TXA" -> txa(ins, address, c)
    [] ins.opc = "TXS" -> txs(ins, address, c)
    [] ins.opc = "TYA" -> tya(ins, address, c)

---------------------------------------------------------------------------
(* Trap detector: a ring of the last sixteen program counters.             *)

NewTrapDetector ==
  [buffer |-> [i \in 0..(trapDetectorBufferSize - 1) |-> 0], index |-> 0]

\* Variant: the write index is not advanced.
trapDetector_push_noAdvance(ld, value) ==
  [buffer |-> [ld.buffer EXCEPT ![ld.index] = value], index |-> ld.index]

trapDetector_push(ld, value) ==
  [buffer |-> [ld.buffer EXCEPT ![ld.index] = value],
   index |-> (ld.index + 1) % trapDetectorBufferSize]

hastrap(ld) ==
  \A i \in 0..((trapDetectorBufferSize \div 2) - 1) :
     ld.buffer[i] = ld.buffer[i + (trapDetectorBufferSize \div 2)]

---------------------------------------------------------------------------
(* MOS6502.Cycle as a function of the processor state.  The result names   *)
(* the way the call returned (outcome) and the state it leaves.            *)

CycleResult(outcome, opcode, c, h, td, total) ==
  [outcome |-> outcome, opcode |-> opcode, cpu |-> c, halt |-> h,
   trapDetector |-> td, TotalCycles |-> total]

\* Variant: the stop address is compared with the address after the opcode.
stopReached_afterFetch(c, stop) == u16(c.pc + 1) = stop

\* The stop check at entry.
stopReached(c, stop) == c.pc = stop

\* Variant: the opcode byte is consumed before the table lookup.
cycleUnknown_consumed(opcode, c, td, total) ==
  CycleResult("unknown", opcode, [c EXCEPT !.pc = u16(@ + 1)],
              HaltUnknownInstruction, td, total)

\* No table entry for the opcode: halt, nothing else changes.
cycleUnknown(opcode, c, td, total) ==
  CycleResult("unknown", opcode, c, HaltUnknownInstruction, td, total)

\* Variant: an executed instruction puts the processor back to Continue.
cycleExecute_resumes(opcode, ins, address, c, h, td, total) ==
  LET c1 == [c EXCEPT !.pc = u16(@ + ins.size)]
      spent == u8(ins.cycles + c1.additionalCycles)
  IN CycleResult("exec", opcode, execute(ins, address, c1), Continue, td, total + spent)

\* Variant: the cycle of the call itself is left out of the account.
cycleExecute_lessOne(opcode, ins, address, c, h, td, total) ==
  LET c1 == [c EXCEPT !.pc = u16(@ + ins.size)]
      spent == u8(ins.cycles + 255 + c1.additionalCycles)
  IN CycleResult("exec", opcode, execute(ins, address, c1), h, td, total + spent)

\* The tail of Cycle: advance pc, account the cycles, run the handler.
cycleExecute(opcode, ins, address, c, h, td, total) ==
  LET c1 == [c EXCEPT !.pc = u16(@ + ins.size)]
      spent == u8(ins.cycles + c1.additionalCycles)
  IN CycleResult("exec", opcode, execute(ins, address, c1), h, td, total + spent)

\* Variant: the trap is reported after the instruction has been executed.
cycleTrap_executed(opcode, ins, address, c, td, total) ==
  LET c1 == [c EXCEPT !.pc = u16(@ + ins.size)]
  IN CycleResult("trap", opcode, execute(ins, address, c1), HaltTrap, td,
                 total + u8(ins.cycles + c1.additionalCycles))

\* The trap return of Cycle(): HaltTrap, nothing executed.
cycleTrap(opcode, ins, address, c, td, total) ==
  CycleResult("trap", opcode, c, HaltTrap, td, total)

\* Variant: PC enters the trap-detector buffer before the stop check and
\* the table lookup.
cycle_pushesFirst(c, h, td, total, stop, trapOn) ==
  LET td0 == IF trapOn THEN trapDetector_push(td, c.pc) ELSE td
  IN IF stopReached(c, stop)
     THEN CycleResult("stop", 0, c, HaltSuccess, td0, total)
     ELSE
       LET c0 == [c EXCEPT !.additionalCycles = 0]
           opcode == Read(c0.memory, c0.pc)
       IN IF opcode \notin DOMAIN instructions
          THEN cycleUnknown(opcode, c0, td0, total)
          ELSE
            LET ins == instructions[opcode]
                ld == load(ins, c0)
            IN IF trapOn /\ hastrap(td0)
               THEN cycleTrap(opcode, ins, ld.address, ld.cpu, td0, total)
               ELSE cycleExecute(opcode, ins, ld.address, ld.cpu, h, td0, total)

cycle(c, h, td, total, stop, trapOn) ==
  IF stopReached(c, stop)
  THEN CycleResult("stop", 0, c, HaltSuccess, td, total)
  ELSE
    LET c0 == [c EXCEPT !.additionalCycles = 0]
        opcode == Read(c0.memory, c0.pc)
    IN IF opcode \notin DOMAIN instructions
       THEN cycleUnknown(opcode, c0, td, total)
       ELSE
         LET ins == instructions[opcode]
             ld == load(ins, c0)
             td1 == IF trapOn THEN trapDetector_push(td, c0.pc) ELSE td
         IN IF trapOn /\ hastrap(td1)
            THEN cycleTrap(opcode, ins, ld.address, ld.cpu, td1, total)
            ELSE cycleExecute(opcode, ins, ld.address, ld.cpu, h, td1, total)

---------------------------------------------------------------------------
(* The processor as one record, and the record of the last call.           *)

cpuNow ==
  [a |-> a, x |-> x, y |-> y, sp |-> sp, pc |-> pc, p |-> p,
   memory |-> memory, additionalCycles |-> additionalCycles]

Snapshot ==
  [a |-> a, x |-> x, y |-> y, sp |-> sp, pc |-> pc, p |-> p,
   memory |-> memory, additionalCycles |-> additionalCycles,
   halt |-> halt, trapDetector |-> trapDetector, TotalCycles |-> TotalCycles]

\* What a JSR, PHA, PHP or BRK that has not yet been matched by its RTS,
\* PLA, PLP or RTI saved: the return address, A or P, and SP before the
\* push; a BRK saves both the return address and P (status).
Mark(kind, value, s) == [kind |-> kind, value |-> value, sp |-> s, status |-> 0]

BrkMark(c) ==
  [kind |-> "BRK", value |-> u16(c.pc + 2), sp |-> c.sp, status |-> c.p]

NoMark == Mark("none", 0, 0)

PushKind(opcode) ==
  CASE opcode = 32 -> "JSR" [] opcode = 72 -> "PHA" [] opcode = 8 -> "PHP"
    [] opcode = 96 -> "JSR" [] opcode = 104 -> "PHA" [] opcode = 40 -> "PHP"
    [] opcode = 0 -> "BRK" [] opcode = 64 -> "BRK"
    [] OTHER -> "none"

\* The mark an executed RTS, PLA, PLP or RTI answers: the innermost open one, if
\* it is of the matching kind.
Matched(marks, outcome, opcode) ==
  IF /\ outcome = "exec"
     /\ opcode \in {96, 104, 40, 64}
     /\ marks # <<>>
     /\ marks[Len(marks)].kind = PushKind(opcode)
  THEN marks[Len(marks)]
  ELSE NoMark

\* The open marks after a call made with processor c: JSR, PHA, PHP and BRK
\* open one, a matching RTS, PLA, PLP or RTI closes one, a call that executes nothing
\* keeps them, as does LDA immediate, which touches neither SP nor memory,
\* and any other instruction ends the nesting.
Marked(marks, outcome, opcode, c) ==
  IF outcome # "exec" THEN marks
  ELSE IF opcode = 32 THEN Append(marks, Mark("JSR", u16(c.pc + 3), c.sp))
  ELSE IF opcode = 72 THEN Append(marks, Mark("PHA", c.a, c.sp))
  ELSE IF opcode = 8 THEN Append(marks, Mark("PHP", c.p, c.sp))
  ELSE IF opcode = 0 THEN Append(marks, BrkMark(c))
  ELSE IF Matched(marks, outcome, opcode) # NoMark
       THEN SubSeq(marks, 1, Len(marks) - 1)
  ELSE IF opcode = 169 THEN marks
  ELSE <<>>

NoCall ==
  [call |-> "none", outcome |-> "none", opcode |-> 0, selfLoops |-> 0,
   marks |-> <<>>, mark |-> NoMark,
   pre |-> [a |-> 0, x |-> 0, y |-> 0, sp |-> 0, pc |-> 0, p |-> 0,
            memory |-> <<>>, additionalCycles |-> 0, halt |-> Continue,
            trapDetector |-> NewTrapDetector, TotalCycles |-> 0]]

---------------------------------------------------------------------------
(* Initial states: NewMOS6502, Reset(memory), then the set-up the test     *)
(* harness and the command line perform before the first Cycle().          *)

\* The memory holding the given <<address, byte>> pairs, zero elsewhere.
MemoryOf(pairs) ==
  LET nz == {q \in pairs : q[2] # 0}
  IN [k \in {q[1] : q \in nz} |-> (CHOOSE q \in nz : q[1] = k)[2]]

\* setup(program, bootstrap): reset vector 0xdd00, program at 0xdd00,
\* bootstrap bytes laid over it.
setup(program, bootstrap) ==
  LET base == {<<RESVectorLow, 0>>, <<RESVectorLow + 1, 221>>}
              \cup {<<56576 + i - 1, program[i]>> : i \in 1..Len(program)}
      over == {q[1] : q \in bootstrap}
  IN MemoryOf({q \in base : q[1] \notin over} \cup bootstrap)

Setup(m, va, vx, vy, vsp, vpc, vp, stop, trap) ==
  [memory |-> m, a |-> va, x |-> vx, y |-> vy, sp |-> vsp, pc |-> vpc,
   p |-> vp, StopOnPC |-> stop, TrapDetector |-> trap]

\* Data bytes laid under every program: JMP $0210 at address 0 (where BRK
\* lands, the IRQ vector being zero), an unassigned opcode at $0210,
\* zero-page pointers, and operands on both sides of a page boundary.
Background ==
  { <<0, 76>>, <<1, 16>>, <<2, 2>>, <<16, 240>>, <<17, 2>>, <<255, 255>>, <<256, 2>>,
    <<511, 64>>, <<512, 255>>, <<528, 128>>, <<529, 1>>,
    <<752, 85>>, <<783, 127>>, <<1007, 1>> }

\* The pairs of over laid on those of under.
Over(under, over) ==
  {q \in under : q[1] \notin {o[1] : o \in over}} \cup over

\* A program placed at address base.
At(base, program) == {<<u16(base + i - 1), program[i]>> : i \in 1..Len(program)}

OperandPairs == {<<16, 2>>, <<255, 1>>}

BranchOpcodes == {16, 48, 80, 112, 144, 176, 208, 240}

BranchOffsets == {0, 5, 127, 128, 251, 254}

BranchBases == {56576, 56816, 56830}

\* <<StopOnPC, TrapDetector>>: no stop address, the stop address at the
\* first instruction or past it, and a stop address never reached.
SweepConfigs == { <<0, TRUE>>, <<56576, FALSE>> }

BranchConfigs == { <<0, FALSE>>, <<819, TRUE>> }

LoopConfigs(base) ==
  { <<0, FALSE>>, <<0, TRUE>>, <<base, FALSE>>, <<u16(base + 2), TRUE>>, <<819, TRUE>> }

\* One instruction for every opcode byte, assigned or not; an unassigned
\* opcode, whose operand bytes are never read, gets one operand pair only.
SweepPrograms ==
  {[base |-> 56576, code |-> <<q[1], q[2][1], q[2][2]>>, configs |-> SweepConfigs] :
     q \in {w \in (0..255) \X OperandPairs :
              w[1] \in DOMAIN instructions \/ w[2] = <<16, 2>>}}

\* One branch at each base; trap detection is on at the first base only.
BranchPrograms ==
  {[base |-> q, code |-> <<b, o>>,
    configs |-> IF q = 56576 THEN BranchConfigs ELSE {<<0, FALSE>>}] :
     q \in BranchBases, b \in BranchOpcodes, o \in BranchOffsets}

\* Loops: JMP to itself, a branch to itself, loops of 2, 3 and 8
\* instructions, a JMP to itself at address 0, and two instructions that
\* run into a byte without a table entry.
LoopPrograms ==
  { [base |-> g[1], code |-> g[2], configs |-> LoopConfigs(g[1])] :
      g \in { <<56576, <<76, 0, 221>>>>,
              <<56576, <<234, 234, 76, 2, 221>>>>,
              <<56576, <<208, 254>>>>,
              <<56576, <<234, 240, 254>>>>,
              <<56576, <<234, 76, 0, 221>>>>,
              <<56576, <<234, 234, 76, 0, 221>>>>,
              <<56576, <<234, 234, 234, 234, 234, 234, 234, 76, 0, 221>>>>,
              <<0, <<76, 0, 0>>>>,
              <<56576, <<234, 234, 2>>>> } }

Programs == SweepPrograms \cup BranchPrograms \cup LoopPrograms

\* <<a, x, y, sp, p>>: the values Reset leaves, and a register file the
\* harness sets (sp at the bottom of the stack, C, Z, D, V and N set).
Registers == { <<170, 0, 0, 255, 52>>, <<128, 1, 255, 0, 251>> }

SetupsOf(g) ==
  { Setup(setup(<<>>, Over(Background, At(g.base, g.code))),
          r[1], r[2], r[3], r[4], g.base, r[5], k[1], k[2]) :
      r \in Registers, k \in g.configs }

Setups == UNION {SetupsOf(g) : g \in Programs}

Init ==
  \E s \in Setups :
    /\ memory = s.memory
    /\ a = s.a
    /\ x = s.x
    /\ y = s.y
    /\ sp = s.sp
    /\ pc = s.pc
    /\ p = s.p
    /\ StopOnPC = s.StopOnPC
    /\ TrapDetector = s.TrapDetector
    /\ halt = Continue
    /\ trapDetector = NewTrapDetector
    /\ additionalCycles = 0
    /\ TotalCycles = 0
    /\ hostCalls = 0
    /\ last = NoCall

---------------------------------------------------------------------------
(* Actions: the calls of the processor API.                                *)

Cycle ==
  /\ TotalCycles < MaxTotalCycles
  /\ LET r == cycle(cpuNow, halt, trapDetector, TotalCycles, StopOnPC, TrapDetector)
     IN /\ a' = r.cpu.a
        /\ x' = r.cpu.x
        /\ y' = r.cpu.y
        /\ sp' = r.cpu.sp
        /\ pc' = r.cpu.pc
        /\ p' = r.cpu.p
        /\ memory' = r.cpu.memory
        /\ additionalCycles' = r.cpu.additionalCycles
        /\ halt' = r.halt
        /\ trapDetector' = r.trapDetector
        /\ TotalCycles' = r.TotalCycles
        /\ last' = [call |-> "Cycle", outcome |-> r.outcome, opcode |-> r.opcode,
                    selfLoops |->
                      IF r.outcome = "exec" /\ TrapDetector /\ r.cpu.pc = pc
                      THEN last.selfLoops + 1
                      ELSE IF r.outcome = "trap" THEN last.selfLoops ELSE 0,
                    marks |-> Marked(last.marks, r.outcome, r.opcode, cpuNow),
                    mark |-> Matched(last.marks, r.outcome, r.opcode),
                    pre |-> Snapshot]
  /\ UNCHANGED <<StopOnPC, TrapDetector, hostCalls>>

\* Variant: the reset value of P without the interrupt-disable flag.
reset_statusClear(c, m) ==
  [c EXCEPT !.a = 170, !.x = 0, !.y = 0, !.sp = StackTop, !.p = 48,
            !.pc = ReadWord(m, 65532), !.memory = m]

\* The assignments of Reset(memory) to the processor c.
reset(c, m) ==
  [c EXCEPT !.a = 170, !.x = 0, !.y = 0, !.sp = StackTop, !.p = 52,
            !.pc = ReadWord(m, 65532), !.memory = m]

\* The host hands Reset the memory in use.
Reset ==
  /\ hostCalls < MaxHostCalls
  /\ LET c == reset(cpuNow, memory)
     IN /\ a' = c.a
        /\ x' = c.x
        /\ y' = c.y
        /\ sp' = c.sp
        /\ p' = c.p
        /\ pc' = c.pc
        /\ memory' = c.memory
  /\ hostCalls' = hostCalls + 1
  /\ last' = [call |-> "Reset", outcome |-> "none", opcode |-> 0,
              selfLoops |-> 0, marks |-> <<>>, mark |-> NoMark,
              pre |-> Snapshot]
  /\ UNCHANGED <<halt, TrapDetector, trapDetector, additionalCycles,
                 TotalCycles, StopOnPC>>

SetPCValues == {0, 56576}

SetPC ==
  /\ hostCalls < MaxHostCalls
  /\ \E v \in SetPCValues : pc' = v
  /\ hostCalls' = hostCalls + 1
  /\ last' = [call |-> "SetPC", outcome |-> "none", opcode |-> 0,
              selfLoops |-> 0, marks |-> <<>>, mark |-> NoMark,
              pre |-> Snapshot]
  /\ UNCHANGED <<a, x, y, sp, p, memory, halt, TrapDetector, trapDetector,
                 additionalCycles, TotalCycles, StopOnPC>>

Next == Cycle \/ Reset \/ SetPC

Spec == Init /\ [][Next]_vars

---------------------------------------------------------------------------
(* A second family of initial states, for the properties of single         *)
(* instructions and of push/pull pairs: short programs run from many       *)
(* register values.                                                        *)

ByteSamples == {0, 1, 2, 3, 15, 16, 63, 64, 127, 128, 129, 170, 191, 192, 254, 255}

StackPointers == {0, 1, 2, 128, 255}

\* P with all of N, V, D, Z clear or all set, carry clear or set.
ArithmeticFlags == {52, 53, 250, 251}

\* Every P with bit 5 set.
StatusValues == {v \in 0..255 : Bit(v, 5) = 1}

\* A program placed at base, over the bootstrap bytes, in the memory that
\* setup builds; registers A, SP and P as given, X = 7, Y = 9, the stop
\* address as given and no trap detection.
OpsSetup(base, code, bootstrap, va, vsp, vp, stop) ==
  Setup(setup(<<>>, Over(bootstrap, At(base, code))),
        va, 7, 9, vsp, base, vp, stop, FALSE)

\* ADC and SBC, immediate and absolute, the operand m at $0210.
ArithmeticSetups ==
  {OpsSetup(56576, <<o, m>>, {}, va, 255, f, 56578) :
     o \in {105, 233}, m \in ByteSamples, va \in ByteSamples, f \in ArithmeticFlags}
  \cup
  {OpsSetup(56576, <<o, 16, 2>>, {<<528, m>>}, va, 255, f, 56579) :
     o \in {109, 237}, m \in {1, 127, 128, 255}, va \in ByteSamples, f \in {52, 251}}

\* LSR on A, on the zero-page byte $10 and on the byte at $0210.
ShiftSetups ==
  {OpsSetup(56576, <<74>>, {}, v, 255, f, 56577) :
     v \in ByteSamples, f \in ArithmeticFlags}
  \cup
  {OpsSetup(56576, <<70, 16>>, {<<16, v>>}, 170, 255, f, 56578) :
     v \in ByteSamples, f \in {52, 251}}
  \cup
  {OpsSetup(56576, <<78, 16, 2>>, {<<528, v>>}, 170, 255, f, 56579) :
     v \in ByteSamples, f \in {52, 251}}

\* BRK at the start of a page, two bytes before the end of one, and with the
\* IRQ vector pointing at $0310 or left zero; the stop address is $0310.
BreakSetups ==
  {OpsSetup(q, <<0, 0>>, w, 170, s, f, 784) :
     q \in {56576, 766}, w \in {{}, {<<IRQVectorLow, 16>>, <<IRQVectorHigh, 3>>}},
     s \in StackPointers, f \in {32, 52, 235}}

\* PHA then PLA; PHP then PLP; PLP of a byte already on the stack.
PushPullSetups ==
  {OpsSetup(56576, <<72, 104>>, {}, va, s, f, 56578) :
     va \in ByteSamples, s \in StackPointers, f \in {52, 251}}
  \cup
  {OpsSetup(56576, <<8, 40>>, {}, 170, s, f, 56578) :
     s \in {0, 128, 255}, f \in StatusValues}
  \cup
  {OpsSetup(56576, <<40>>, {<<stackAddress(u8(s + 1)), b>>}, 170, s, 52, 56577) :
     s \in StackPointers, b \in ByteSamples}

\* The bytes of the subroutines: RTS alone; a PHA/PLA pair then RTS; a
\* nested call to u (which holds a PHP/PLP pair then RTS) then RTS.
Subroutines(t, u) ==
  { At(t, <<96>>),
    At(t, <<72, 104, 96>>),
    At(t, <<72, 32, u % 256, u \div 256, 104, 96>>) \cup At(u, <<8, 40, 96>>) }

\* JSR t at p for two p (the second with p + 3 in the next page); the
\* reset vector points at p and the stop address is p + 3.
CallSetupsTo(t) ==
  {OpsSetup(q, <<32, t % 256, t \div 256>>,
            body \cup {<<65532, q % 256>>, <<65533, q \div 256>>},
            85, s, 235, q + 3) :
     q \in {56576, 765}, body \in Subroutines(t, 1536), s \in StackPointers}

CallSetups == CallSetupsTo(1024) \cup CallSetupsTo(1279)

\* Bytes that differ between any two addresses less than 251 apart, none
\* of them zero, laid over the addresses lo..hi.
Pattern(lo, hi) == {<<k, (k % 251) + 1>> : k \in lo..hi}

\* Data for the addressing programs: the zero page, the start of the stack
\* page, and the bytes round $0200 and $0300.
AddressingData == Pattern(0, 260) \cup Pattern(512, 528) \cup Pattern(752, 1023)

IndexValues == {0, 1, 5, 6, 255}

\* As OpsSetup, with X and Y given.
IndexedSetup(base, code, bootstrap, va, vx, vy, stop) ==
  Setup(setup(<<>>, Over(bootstrap, At(base, code))),
        va, vx, vy, 255, base, 52, stop, FALSE)

\* LDY zero-page,X and absolute,X, LDA/STA/LDX/STX zero-page,X and
\* zero-page,Y, LDA and STA (indirect,X): operands that stay inside the
\* page and operands that the index carries past its end.
AddressingSetups ==
  {IndexedSetup(56576, <<o, ll>>, AddressingData, 170, vx, vy, 56578) :
     o \in {180, 181, 149, 182, 150, 161, 129}, ll \in {16, 250, 255},
     vx \in IndexValues, vy \in {0, 3, 255}}
  \cup
  {IndexedSetup(56576, <<188, 248, 2>>, AddressingData, 170, vx, vy, 56579) :
     vx \in IndexValues, vy \in {0, 3, 255}}

\* JMP indirect through $02FF (the last byte of a page) and through $02F8;
\* the stop address is where the jump lands.
JumpSetups ==
  {IndexedSetup(56576, <<108, g[1], 2>>, AddressingData, 170, 0, 0, g[2]) :
     g \in {<<255, 4111>>, <<248, 2312>>}}

\* BIT zero-page and absolute.
BitSetups ==
  {OpsSetup(56576, <<36, 16>>, {<<16, m>>}, va, 255, f, 56578) :
     m \in ByteSamples, va \in ByteSamples, f \in {52, 251}}
  \cup
  {OpsSetup(56576, <<44, 16, 2>>, {<<528, m>>}, va, 255, f, 56579) :
     m \in {0, 63, 64, 128, 255}, va \in {0, 1, 128, 255}, f \in {52, 251}}

\* RTI pulling P and a return address already on the stack.
ReturnSetups ==
  {OpsSetup(56576, <<64>>,
            {<<stackAddress(u8(s + 1)), 203>>, <<stackAddress(u8(s + 2)), 16>>,
             <<stackAddress(u8(s + 3)), 3>>},
            170, s, 52, 784) :
     s \in {0, 128, 252, 253, 254, 255}}

\* Each branch forwards and backwards, in the middle of a page, at the end
\* of one, at address 0 and at the top of memory, with the four tested
\* flags all clear and all set; the stop address $EEEE is never reached.
BranchSetups ==
  {OpsSetup(q, <<b, o>>, {}, 170, 255, f, 61166) :
     q \in {0, 56576, 56830, 65534}, b \in BranchOpcodes,
     o \in BranchOffsets, f \in {52, 251}}

\* BRK at the start of a page and two bytes before the end of one, the IRQ
\* vector pointing at an RTI at $0310; the stop address is the one after
\* the BRK and its padding byte.
InterruptSetups ==
  {OpsSetup(q, <<0, 0>>,
            {<<IRQVectorLow, 16>>, <<IRQVectorHigh, 3>>, <<784, 64>>},
            170, s, f, q + 2) :
     q \in {56576, 766}, s \in StackPointers, f \in StatusValues}

\* ASL, ROL and ROR in each of their five addressing modes, the operand v in
\* A and at $10, $17, $0210 and $0217 (X is 7).
RotateOpcodes == {10, 6, 22, 14, 30, 42, 38, 54, 46, 62, 106, 102, 118, 110, 126}

RotateSetups ==
  {OpsSetup(56576, <<o, 16, 2>>,
            {<<16, v>>, <<23, v>>, <<528, v>>, <<535, v>>},
            IF o \in {10, 42, 106} THEN v ELSE 170, 255, f,
            56576 + instructions[o].size) :
     o \in RotateOpcodes, v \in ByteSamples, f \in ArithmeticFlags}

\* n times LDA #b, PHA with n different bytes, then n times PLA.
LifoBytes == <<17, 34, 51, 68>>

LifoCode(n) ==
  [i \in 1..(3 * n) |->
     IF i % 3 = 1 THEN 169 ELSE IF i % 3 = 2 THEN LifoBytes[(i + 1) \div 3] ELSE 72]
  \o [i \in 1..n |-> 104]

LifoSetups ==
  {OpsSetup(56576, LifoCode(n), {}, 170, s, 52, 56576 + 4 * n) :
     n \in 1..Len(LifoBytes), s \in StackPointers}

OpsSetups ==
  ArithmeticSetups \cup ShiftSetups \cup BreakSetups \cup PushPullSetups
    \cup CallSetups \cup AddressingSetups \cup JumpSetups \cup BitSetups
    \cup ReturnSetups \cup BranchSetups \cup InterruptSetups \cup RotateSetups
    \cup LifoSetups

InitOps ==
  \E s \in OpsSetups :
    /\ memory = s.memory
    /\ a = s.a
    /\ x = s.x
    /\ y = s.y
    /\ sp = s.sp
    /\ pc = s.pc
    /\ p = s.p
    /\ StopOnPC = s.StopOnPC
    /\ TrapDetector = s.TrapDetector
    /\ halt = Continue
    /\ trapDetector = NewTrapDetector
    /\ additionalCycles = 0
    /\ TotalCycles = 0
    /\ hostCalls = 0
    /\ last = NoCall

\* The calls made on these programs: Cycle() and Reset().
NextOps == Cycle \/ Reset

SpecOps == InitOps /\ [][NextOps]_vars
---------------------------------------------------------------------------
(* The run loop of cmd/tests and cmd/mos6502 on a program that loops: the  *)
(* host calls Cycle() for as long as the halt state is Continue, with trap *)
(* detection on and a stop address the loop never reaches.                 *)

\* TotalCycles is kept modulo CycleWindow in this specification: the field
\* is a uint64 that no instruction reads, and a run that never ends needs a
\* finite state.
CycleWindow == 64

\* Loops of 1, 2, 3, 4, 5 and 8 instructions at $DD00: NOPs closed by a JMP
\* to the first of them.
RunLoopLengths == {1, 2, 3, 4, 5, 8}

RunLoopCode(n) == [i \in 1..(n - 1) |-> 234] \o <<76, 0, 221>>

RunLoopSetups ==
  { Setup(setup(<<>>, Over(Background, At(56576, RunLoopCode(n)))),
          r[1], r[2], r[3], r[4], 56576, r[5], 819, TRUE) :
      n \in RunLoopLengths, r \in Registers }

InitLoops ==
  \E s \in RunLoopSetups :
    /\ memory = s.memory
    /\ a = s.a
    /\ x = s.x
    /\ y = s.y
    /\ sp = s.sp
    /\ pc = s.pc
    /\ p = s.p
    /\ StopOnPC = s.StopOnPC
    /\ TrapDetector = s.TrapDetector
    /\ halt = Continue
    /\ trapDetector = NewTrapDetector
    /\ additionalCycles = 0
    /\ TotalCycles = 0
    /\ hostCalls = 0
    /\ last = NoCall

\* One turn of the run loop: Cycle(), made while the halt state is Continue.
RunLoopCycle ==
  /\ halt = Continue
  /\ LET r == cycle(cpuNow, halt, trapDetector, TotalCycles, StopOnPC, TrapDetector)
     IN /\ a' = r.cpu.a
        /\ x' = r.cpu.x
        /\ y' = r.cpu.y
        /\ sp' = r.cpu.sp
        /\ pc' = r.cpu.pc
        /\ p' = r.cpu.p
        /\ memory' = r.cpu.memory
        /\ additionalCycles' = r.cpu.additionalCycles
        /\ halt' = r.halt
        /\ trapDetector' = r.trapDetector
        /\ TotalCycles' = r.TotalCycles % CycleWindow
        /\ last' = [call |-> "Cycle", outcome |-> r.outcome, opcode |-> r.opcode,
                    selfLoops |-> 0, marks |-> <<>>, mark |-> NoMark,
                    pre |-> Snapshot]
  /\ UNCHANGED <<StopOnPC, TrapDetector, hostCalls>>

NextLoops == RunLoopCycle

\* The run loop never pauses between two calls.
SpecLoops == InitLoops /\ [][NextLoops]_vars /\ WF_vars(RunLoopCycle)


---------------------------------------------------------------------------
(* Properties.  last records the most recent call and the state it was     *)
(* made in, so that the effect of one call is a predicate on one state.    *)

CalledCycle == last.call = "Cycle"

Executed == CalledCycle /\ last.outcome = "exec"

\* A, X, Y, SP, PC, P, memory and TotalCycles are as before the last call.
Untouched ==
  /\ a = last.pre.a
  /\ x = last.pre.x
  /\ y = last.pre.y
  /\ sp = last.pre.sp
  /\ pc = last.pre.pc
  /\ p = last.pre.p
  /\ memory = last.pre.memory
  /\ TotalCycles = last.pre.TotalCycles

\* What the last call added to TotalCycles.
Cost == TotalCycles - last.pre.TotalCycles

\* The opcode byte at PC before the last call.
FetchedOpcode == Read(last.pre.memory, last.pre.pc)

\* C1: bit 5 of P is 1 in every state, and the copy of P that PHP (at the
\* old SP) or BRK (third push, two below the old SP) writes to the stack
\* has bit 5 set.
C1_ReservedBitSet ==
  /\ Bit(p, 5) = 1
  /\ (Executed /\ last.opcode = 8)
       => Bit(Read(memory, stackAddress(last.pre.sp)), 5) = 1
  /\ (Executed /\ last.opcode = 0)
       => Bit(Read(memory, stackAddress(u8(last.pre.sp + 254))), 5) = 1

\* A PLP has pulled a byte whose bit 5 is clear.
C1_Witness ==
  /\ Executed
  /\ last.opcode = 40
  /\ Bit(Read(last.pre.memory, stackAddress(u8(last.pre.sp + 1))), 5) = 0

\* C2: the halt state is one-way: a call made when the halt state is not
\* Continue never leaves it Continue.
C2_HaltOneWay ==
  (last.call # "none" /\ last.pre.halt # Continue) => halt # Continue

\* In a run of Cycle() calls alone, an instruction was executed on a
\* processor that had already halted.
C2_Witness == hostCalls = 0 /\ Executed /\ last.pre.halt # Continue

\* C3: in a run of Cycle() calls, a call made when the halt state is not
\* Continue changes neither A, X, Y, SP, PC, P, memory, TotalCycles nor the
\* halt kind.
C3_HaltedCycleIsNoOp ==
  (hostCalls = 0 /\ CalledCycle /\ last.pre.halt # Continue)
    => (Untouched /\ halt = last.pre.halt)

\* C4 as stated: whenever the byte at PC has no table entry, Cycle() sets
\* HaltUnknownInstruction and changes nothing else.
C4_UnknownOpcodeHalts ==
  (CalledCycle /\ FetchedOpcode \notin DOMAIN instructions)
    => (halt = HaltUnknownInstruction /\ Untouched)

\* C4 amended: when PC differs from StopOnPC and the byte at PC has no table
\* entry, Cycle() sets HaltUnknownInstruction and changes neither A, X, Y,
\* SP, PC, P, memory nor TotalCycles.
C4_UnknownOpcodeHaltsUnlessStopped ==
  (CalledCycle /\ last.pre.pc # StopOnPC /\ FetchedOpcode \notin DOMAIN instructions)
    => (halt = HaltUnknownInstruction /\ Untouched)

\* Cycle() has just halted a running processor on an unassigned opcode.
C4_Witness ==
  /\ CalledCycle
  /\ last.outcome = "unknown"
  /\ last.pre.halt = Continue
  /\ halt = HaltUnknownInstruction

\* C5: when StopOnPC is nonzero and PC equals it at entry, Cycle() sets
\* HaltSuccess and the instruction there is not executed.
C5_StopBeforeExecute ==
  (CalledCycle /\ StopOnPC # 0 /\ last.pre.pc = StopOnPC)
    => (halt = HaltSuccess /\ Untouched)

\* The stop address was reached after instructions had run, and an
\* assigned opcode waits there.
C5_Witness ==
  /\ CalledCycle
  /\ StopOnPC # 0
  /\ last.pre.pc = StopOnPC
  /\ last.pre.TotalCycles > 0
  /\ FetchedOpcode \in DOMAIN instructions
  /\ halt = HaltSuccess

\* C6: when StopOnPC is 0 no Cycle() call sets HaltSuccess, whatever PC is.
C6_ZeroDisablesStop == StopOnPC = 0 => halt # HaltSuccess

\* The condition of a branch opcode on the flags p.
BranchTaken(opcode, f) ==
  CASE opcode = 16 -> ~isSet(f, P_Negative)
    [] opcode = 48 -> isSet(f, P_Negative)
    [] opcode = 80 -> ~isSet(f, P_Overflow)
    [] opcode = 112 -> isSet(f, P_Overflow)
    [] opcode = 144 -> ~isSet(f, P_Carry)
    [] opcode = 176 -> isSet(f, P_Carry)
    [] opcode = 208 -> ~isSet(f, P_Zero)
    [] opcode = 240 -> isSet(f, P_Zero)

\* C7: a branch adds 2 to TotalCycles when not taken, 3 when taken to the
\* page of the address following the branch, 4 when taken to another page.
C7_BranchCycles ==
  (Executed /\ last.opcode \in BranchOpcodes)
    => Cost = IF ~BranchTaken(last.opcode, last.pre.p) THEN 2
              ELSE IF (pc \div 256) = (u16(last.pre.pc + 2) \div 256) THEN 3
              ELSE 4

IndexedModes == {"AM_INDEXED_X", "AM_INDEXED_Y", "AM_POST_INDEXED"}

\* The operand bytes of the instruction the last call fetched.
OperandLo == Read(last.pre.memory, u16(last.pre.pc + 1))

OperandHi == Read(last.pre.memory, u16(last.pre.pc + 2))

\* Base and effective address of an indexed instruction, from the state
\* before the call.
IndexBase(mode) ==
  IF mode = "AM_POST_INDEXED"
  THEN ReadWord(last.pre.memory, OperandLo)
  ELSE OperandHi * 256 + OperandLo

IndexEffective(mode) ==
  u16(IndexBase(mode) + (IF mode = "AM_INDEXED_X" THEN last.pre.x ELSE last.pre.y))

PageCrossed(mode) ==
  (IndexBase(mode) \div 256) # (IndexEffective(mode) \div 256)

\* C8: an absolute,X, absolute,Y or (indirect),Y instruction adds its base
\* cycles, plus 1 exactly when base and effective address lie in different
\* pages; an instruction of any other mode but relative adds exactly its
\* base cycles, whatever surcharge the instruction before it recorded.
C8_PageCrossSurcharge ==
  Executed =>
    LET ins == instructions[last.opcode]
    IN /\ ins.mode \in IndexedModes
            => Cost = ins.cycles + (IF PageCrossed(ins.mode) THEN 1 ELSE 0)
       /\ ins.mode \notin (IndexedModes \cup {"AM_RELATIVE"})
            => Cost = ins.cycles

\* An indexed instruction has crossed a page.
C8_Witness ==
  /\ Executed
  /\ instructions[last.opcode].mode \in IndexedModes
  /\ PageCrossed(instructions[last.opcode].mode)
  /\ Cost = instructions[last.opcode].cycles + 1

\* C9: no call decreases TotalCycles; a Cycle() call that halts leaves it
\* unchanged and one that executes an instruction adds at least 2.
C9_TotalCyclesMonotone ==
  /\ last.call # "none" => TotalCycles >= last.pre.TotalCycles
  /\ (CalledCycle /\ last.outcome \in {"stop", "unknown", "trap"}) => Cost = 0
  /\ Executed => Cost >= 2

\* A two-cycle instruction has been executed after earlier ones.
C9_Witness == Executed /\ Cost = 2 /\ last.pre.TotalCycles > 0

\* C10: with trap detection on, Cycle() executes an instruction that leaves
\* PC at its own address at most 15 times in a row: the 16th call at the
\* latest reports the trap.
C10_SelfLoopTrapped ==
  /\ last.selfLoops <= 15
  /\ (CalledCycle /\ last.outcome = "trap") => halt = HaltTrap

\* Fifteen self-transfers were executed and the sixteenth call trapped.
C10_Witness ==
  /\ CalledCycle
  /\ last.outcome = "trap"
  /\ last.selfLoops = 15
  /\ halt = HaltTrap

\* C11: a Cycle() call that detects a trap sets HaltTrap and returns before
\* the instruction at PC is executed: PC, A, X, Y, SP, P, memory and
\* TotalCycles are as before the call.
C11_TrapBeforeExecute ==
  (CalledCycle /\ last.outcome = "trap") => (halt = HaltTrap /\ Untouched)

\* A processor that had executed instructions was halted by the trap
\* detector on a JMP.
C11_Witness ==
  /\ CalledCycle
  /\ last.outcome = "trap"
  /\ last.pre.halt = Continue
  /\ last.pre.TotalCycles > 0
  /\ last.opcode = 76
  /\ halt = HaltTrap

\* C12: after Reset the halt state is Continue and TotalCycles is 0,
\* whatever they were before the call.
C12_ResetRunnable ==
  last.call = "Reset" => (halt = Continue /\ TotalCycles = 0)

\* C13: after Reset, from any prior register state, A = 0xAA, X = 0, Y = 0,
\* SP = 0xFF, P = 0b00110100 and PC is the little-endian word at 0xFFFC.
C13_ResetRegisters ==
  last.call = "Reset" =>
    /\ a = 170
    /\ x = 0
    /\ y = 0
    /\ sp = 255
    /\ p = 52
    /\ pc = Read(memory, 65532) + 256 * Read(memory, 65533)

\* Reset was called with every register different from its reset value and
\* a reset vector that points at $02FD.
C13_Witness ==
  /\ last.call = "Reset"
  /\ last.pre.a # 170
  /\ last.pre.x # 0
  /\ last.pre.y # 0
  /\ last.pre.sp # 255
  /\ last.pre.p # 52
  /\ last.pre.pc # 765
  /\ pc = 765

\* An RTS, PLA or PLP has just answered the innermost outstanding JSR, PHA
\* or PHP, with nothing but such pairs executed in between.
Answered(opcode) ==
  Executed /\ last.opcode = opcode /\ last.mark.kind = PushKind(opcode)

\* C14: the RTS that answers a JSR at p, immediately or after balanced
\* JSR/RTS and push/pull pairs, leaves PC = p + 3 and SP as before the JSR.
C14_JsrRtsRoundTrip ==
  Answered(96) => (pc = last.mark.value /\ sp = last.mark.sp)

\* The outer RTS of a nested call returned across a page boundary with the
\* stack wrapped: the JSR was at $02FD with SP = 0x01.
C14_Witness ==
  /\ Answered(96)
  /\ last.marks = <<>>
  /\ last.pre.TotalCycles > 30
  /\ last.mark.sp = 1
  /\ pc = 768

\* C15: the PLA that answers a PHA leaves A and SP as they were before the
\* PHA, also when the push wrapped SP from 0x00 to 0xFF.
C15_PhaPlaRoundTrip ==
  Answered(104) => (a = last.mark.value /\ sp = last.mark.sp)

\* PHA then PLA ran from SP = 0x00 with a nonzero A.
C15_Witness ==
  /\ Answered(104)
  /\ last.mark.sp = 0
  /\ last.pre.sp = 255
  /\ last.mark.value = 129

\* The flags C, Z, I, D, V and N of a status byte.
Restorable(f) == BitAnd(f, 207)

\* C16: the PLP that answers a PHP restores C, Z, I, D, V and N and SP and
\* leaves B clear and bit 5 set; any PLP leaves B clear and bit 5 set.
C16_PhpPlpRoundTrip ==
  /\ Answered(40) =>
       /\ Restorable(p) = Restorable(last.mark.value)
       /\ sp = last.mark.sp
  /\ (Executed /\ last.opcode = 40) => (Bit(p, 4) = 0 /\ Bit(p, 5) = 1)

\* The address BRK returns to: two past the BRK the last call executed.
BrkReturn == u16(last.pre.pc + 2)

\* The three stack addresses a BRK writes, from the SP before it.
BrkStack(i) == stackAddress(u8(last.pre.sp + 256 - i))

\* C17: BRK at p pushes the high byte of p + 2, the low byte of p + 2 and P
\* with B and bit 5 set, lowers SP by 3, sets I, loads PC from 0xFFFE/F,
\* adds 7 to TotalCycles and changes no other memory byte.
C17_Brk ==
  (Executed /\ last.opcode = 0) =>
    /\ Read(memory, BrkStack(0)) = BrkReturn \div 256
    /\ Read(memory, BrkStack(1)) = BrkReturn % 256
    /\ Read(memory, BrkStack(2)) = BitOr(last.pre.p, 48)
    /\ sp = u8(last.pre.sp + 253)
    /\ Bit(p, 2) = 1
    /\ pc = Read(memory, 65534) + 256 * Read(memory, 65535)
    /\ Cost = 7
    /\ \A k \in DOMAIN memory \cup DOMAIN last.pre.memory :
         k \notin {BrkStack(0), BrkStack(1), BrkStack(2)}
           => Read(memory, k) = Read(last.pre.memory, k)

\* BRK ran two bytes before a page end with SP = 0x01, I and B clear, and a
\* nonzero IRQ vector: the pushes wrap round the stack page.
C17_Witness ==
  /\ Executed
  /\ last.opcode = 0
  /\ last.pre.pc = 766
  /\ last.pre.sp = 1
  /\ Bit(last.pre.p, 2) = 0
  /\ Bit(last.pre.p, 4) = 0
  /\ pc = 784
  /\ sp = 254

\* The operand byte of the ADC, SBC or LSR the last call executed, read at
\* the address its addressing mode gives.
OperandByte ==
  LET mode == instructions[last.opcode].mode
  IN IF mode = "AM_IMMEDIATE" THEN OperandLo
     ELSE IF mode = "AM_ZEROPAGE" THEN Read(last.pre.memory, OperandLo)
     ELSE Read(last.pre.memory, OperandHi * 256 + OperandLo)

AdcOpcodes == {105, 109}

SbcOpcodes == {233, 237}

\* A and the flags C, Z, V, N that ADC of m leaves, from accumulator va and
\* carry-in cin, as the claim states them.
AdcResult(va, m, cin) ==
  LET sum == va + m + cin
      res == sum % 256
  IN [a |-> res,
      c |-> IF sum > 255 THEN 1 ELSE 0,
      v |-> IF BitAnd(BitAnd(BitXor(va, res), BitXor(m, res)), 128) # 0 THEN 1 ELSE 0,
      z |-> IF res = 0 THEN 1 ELSE 0,
      n |-> Bit(res, 7)]

\* A and the flags C, Z, V, N now.
Outcome ==
  [a |-> a, c |-> Bit(p, 0), v |-> Bit(p, 6), z |-> Bit(p, 1), n |-> Bit(p, 7)]

\* C18: ADC leaves A = (A + M + C) mod 256, C = carry out of bit 7,
\* V = ((A ^ result) & (M ^ result) & 0x80) != 0, Z and N from the result.
C18_Adc ==
  (Executed /\ last.opcode \in AdcOpcodes)
    => Outcome = AdcResult(last.pre.a, OperandByte, Bit(last.pre.p, 0))

\* An ADC with carry-in 1 has overflowed into the sign bit without a carry
\* out: 0x7F + 0x00 + 1.
C18_Witness ==
  /\ Executed
  /\ last.opcode \in AdcOpcodes
  /\ last.pre.a = 127
  /\ OperandByte = 0
  /\ Bit(last.pre.p, 0) = 1
  /\ a = 128
  /\ Bit(p, 6) = 1
  /\ Bit(p, 0) = 0

\* C19: SBC of M leaves the A, C, V, Z and N that ADC of M xor 0xFF leaves
\* from the same A and carry-in.
C19_SbcIsAdcOfComplement ==
  (Executed /\ last.opcode \in SbcOpcodes)
    => Outcome = AdcResult(last.pre.a, BitXor(OperandByte, 255), Bit(last.pre.p, 0))

\* C20: LSR stores v >> 1 in A or in the addressed byte, sets C to bit 0 of
\* v, sets Z iff the result is 0 and clears N.
C20_Lsr ==
  (Executed /\ last.opcode \in {74, 70, 78}) =>
    LET onA == last.opcode = 74
        v == IF onA THEN last.pre.a ELSE OperandByte
        target == IF last.opcode = 70 THEN OperandLo ELSE OperandHi * 256 + OperandLo
        stored == IF onA THEN a ELSE Read(memory, target)
    IN /\ stored = v \div 2
       /\ Bit(p, 0) = v % 2
       /\ Bit(p, 1) = (IF v \div 2 = 0 THEN 1 ELSE 0)
       /\ Bit(p, 7) = 0

\* The address load() returned for the instruction the last call executed.
EffectiveAddress == load(instructions[last.opcode], last.pre).address

\* The 16-bit operand HHLL of the instruction the last call executed.
OperandWord == OperandHi * 256 + OperandLo

\* C21: LDY zero-page,X (0xB4) loads Y from (LL + X) & 0xFF and LDY
\* absolute,X (0xBC) loads Y from HHLL + X, whatever X and Y are.
C21_LdyIndexedByX ==
  /\ (Executed /\ last.opcode = 180)
       => y = Read(last.pre.memory, (OperandLo + last.pre.x) % 256)
  /\ (Executed /\ last.opcode = 188)
       => y = Read(last.pre.memory, u16(OperandWord + last.pre.x))

\* C22: BIT sets Z iff (A & M) = 0, N to bit 7 and V to bit 6 of M, and
\* leaves A, X, Y, SP, C and memory unchanged.
C22_Bit ==
  (Executed /\ last.opcode \in {36, 44}) =>
    /\ Bit(p, 1) = (IF BitAnd(last.pre.a, OperandByte) = 0 THEN 1 ELSE 0)
    /\ Bit(p, 7) = Bit(OperandByte, 7)
    /\ Bit(p, 6) = Bit(OperandByte, 6)
    /\ a = last.pre.a
    /\ x = last.pre.x
    /\ y = last.pre.y
    /\ sp = last.pre.sp
    /\ Bit(p, 0) = Bit(last.pre.p, 0)
    /\ memory = last.pre.memory

\* BIT of 0xC0 against A = 0x3F with N, V clear and Z set before: A & M
\* is 0 while bits 7 and 6 of M are 1.
C22_Witness ==
  /\ Executed
  /\ last.opcode = 36
  /\ last.pre.a = 63
  /\ OperandByte = 192
  /\ last.pre.p = 52
  /\ Bit(p, 1) = 1
  /\ Bit(p, 7) = 1
  /\ Bit(p, 6) = 1

\* The instructions whose byte result lands in A, in X, in Y, in memory or
\* in the accumulator-or-memory, and the three comparisons.
ResultInA == {"LDA", "TXA", "TYA", "PLA", "AND", "ORA", "EOR", "ADC", "SBC"}

ResultInX == {"LDX", "TAX", "TSX", "INX", "DEX"}

ResultInY == {"LDY", "TAY", "INY", "DEY"}

ResultInMemory == {"INC", "DEC"}

ResultShifted == {"ASL", "LSR", "ROL", "ROR"}

Comparisons == {"CMP", "CPX", "CPY"}

ByteProducing ==
  ResultInA \cup ResultInX \cup ResultInY \cup ResultInMemory
            \cup ResultShifted \cup Comparisons

\* The byte the last executed instruction produced.
ByteResult ==
  LET ins == instructions[last.opcode]
      m == Read(last.pre.memory, EffectiveAddress)
  IN CASE ins.opc \in ResultInA -> a
       [] ins.opc \in ResultInX -> x
       [] ins.opc \in ResultInY -> y
       [] ins.opc \in ResultInMemory -> Read(memory, EffectiveAddress)
       [] ins.opc \in ResultShifted ->
            IF ins.mode = "AM_IMPLIED" THEN a ELSE Read(memory, EffectiveAddress)
       [] ins.opc = "CMP" -> (last.pre.a + 256 - m) % 256
       [] ins.opc = "CPX" -> (last.pre.x + 256 - m) % 256
       [] ins.opc = "CPY" -> (last.pre.y + 256 - m) % 256

\* C23: after every instruction that produces a byte result, Z is set iff
\* the result is 0x00 and N equals bit 7 of the result.
C23_ZeroAndNegative ==
  (Executed /\ last.opcode \in DOMAIN instructions
            /\ instructions[last.opcode].opc \in ByteProducing)
    => /\ Bit(p, 1) = (IF ByteResult = 0 THEN 1 ELSE 0)
       /\ Bit(p, 7) = Bit(ByteResult, 7)

\* An instruction with Z clear and N set before produces 0x00, and one
\* with Z set and N clear before produces a byte with bit 7 set.
C23_WitnessZero ==
  /\ Executed
  /\ last.opcode \in DOMAIN instructions
  /\ instructions[last.opcode].opc \in ResultInMemory \cup ResultShifted
  /\ Bit(last.pre.p, 1) = 0
  /\ Bit(last.pre.p, 7) = 1
  /\ ByteResult = 0
  /\ Bit(p, 1) = 1
  /\ Bit(p, 7) = 0

\* The offset byte of a branch as a signed number.
SignedOffset == IF OperandLo < 128 THEN OperandLo ELSE OperandLo - 256

\* C24: a branch at address p with offset byte b leaves PC = (p + 2 + s)
\* mod 65536 when its predicate holds, s being b as a signed byte, and
\* PC = p + 2 when it does not; registers, flags, SP and memory are
\* unchanged either way.
C24_BranchTarget ==
  (Executed /\ last.opcode \in BranchOpcodes)
    => /\ pc = IF BranchTaken(last.opcode, last.pre.p)
               THEN (last.pre.pc + 2 + SignedOffset + 65536) % 65536
               ELSE (last.pre.pc + 2) % 65536
       /\ a = last.pre.a
       /\ x = last.pre.x
       /\ y = last.pre.y
       /\ sp = last.pre.sp
       /\ p = last.pre.p
       /\ memory = last.pre.memory

\* A taken backward branch from the bottom of memory lands below 0x10000.
C24_WitnessBackward ==
  /\ Executed
  /\ last.opcode \in BranchOpcodes
  /\ BranchTaken(last.opcode, last.pre.p)
  /\ last.pre.pc = 0
  /\ OperandLo = 128
  /\ pc = 65410

\* C25: JMP indirect through a pointer $xxFF takes the low byte of the new
\* PC from $xxFF and the high byte from $xx00; through any other pointer
\* the high byte comes from pointer + 1.
C25_JmpIndirectPageBug ==
  (Executed /\ last.opcode = 108)
    => pc = IF OperandLo = 255
            THEN Read(last.pre.memory, OperandWord)
                 + 256 * Read(last.pre.memory, OperandHi * 256)
            ELSE ReadWord(last.pre.memory, OperandWord)

\* The zero-page pointer of an (indirect,X) instruction.
PreIndexedPointer == (OperandLo + last.pre.x) % 256

\* C26: for (indirect,X) addressing the effective address has its low byte
\* at q = (LL + X) & 0xFF and its high byte at (q + 1) & 0xFF, so for
\* q = 0xFF the high byte comes from 0x0000.
C26_PreIndexedWraps ==
  (Executed /\ last.opcode \in DOMAIN instructions
            /\ instructions[last.opcode].mode = "AM_PRE_INDEXED")
    => EffectiveAddress
         = Read(last.pre.memory, PreIndexedPointer)
           + 256 * Read(last.pre.memory, (PreIndexedPointer + 1) % 256)

\* The index register an addressing mode adds.
ZeroPageIndex(mode) == IF mode = "AM_ZEROPAGE_X" THEN last.pre.x ELSE last.pre.y

\* C27: for zero-page,X and zero-page,Y addressing the effective address is
\* (LL + index) mod 256, so it lies in 0x0000..0x00FF.
C27_ZeroPageIndexedWraps ==
  (Executed /\ last.opcode \in DOMAIN instructions
            /\ instructions[last.opcode].mode \in {"AM_ZEROPAGE_X", "AM_ZEROPAGE_Y"})
    => /\ EffectiveAddress
            = (OperandLo + ZeroPageIndex(instructions[last.opcode].mode)) % 256
       /\ EffectiveAddress \in 0..255

\* LDA $FA,X with X = 6: the sum 0x100 wraps to address 0x0000, and A
\* holds the byte stored there.
C27_WitnessWrap ==
  /\ Executed
  /\ last.opcode = 181
  /\ OperandLo = 250
  /\ last.pre.x = 6
  /\ EffectiveAddress = 0
  /\ a = Read(last.pre.memory, 0)
  /\ a # Read(last.pre.memory, 256)

\* The processor before the last call, with the D flag inverted.
DecimalFlipped ==
  [a |-> last.pre.a, x |-> last.pre.x, y |-> last.pre.y, sp |-> last.pre.sp,
   pc |-> last.pre.pc, p |-> BitXor(last.pre.p, P_Decimal),
   memory |-> last.pre.memory,
   additionalCycles |-> last.pre.additionalCycles]

\* What the last call would have left had D been inverted before it.
OtherRun ==
  cycle(DecimalFlipped, last.pre.halt, last.pre.trapDetector,
        last.pre.TotalCycles, StopOnPC, TrapDetector)

OutcomeOf(c) ==
  [a |-> c.a, c |-> Bit(c.p, 0), v |-> Bit(c.p, 6), z |-> Bit(c.p, 1),
   n |-> Bit(c.p, 7)]

\* C28: ADC and SBC ignore decimal mode: executions from states that differ
\* only in D leave the same A, C, V, Z and N, and neither changes D.
C28_DecimalIgnored ==
  (Executed /\ last.opcode \in AdcOpcodes \cup SbcOpcodes)
    => /\ OtherRun.outcome = "exec"
       /\ OutcomeOf(OtherRun.cpu) = Outcome
       /\ Bit(p, 3) = Bit(last.pre.p, 3)
       /\ Bit(OtherRun.cpu.p, 3) = 1 - Bit(last.pre.p, 3)

\* SBC with D set leaves 0x0F, a result whose low digit a decimal
\* subtraction would have corrected.
C28_WitnessDecimalSet ==
  /\ Executed
  /\ last.opcode \in SbcOpcodes
  /\ Bit(last.pre.p, 3) = 1
  /\ last.pre.a = 16
  /\ OperandByte = 1
  /\ Bit(last.pre.p, 0) = 0
  /\ a = 15
  /\ Bit(p, 3) = 1

\* The number of bytes each stack instruction pushes or pops.
Pushes == (72 :> 1) @@ (8 :> 1) @@ (32 :> 2) @@ (0 :> 3)

Pops == (104 :> 1) @@ (40 :> 1) @@ (96 :> 2) @@ (64 :> 3)

\* The address of the i-th byte pushed (i from 0) and of the i-th byte
\* popped (i from 1) by the last call.
PushSlot(i) == 256 + ((last.pre.sp + 256 - i) % 256)

PopSlot(i) == 256 + ((last.pre.sp + i) % 256)

PoppedByte(i) == Read(last.pre.memory, PopSlot(i))

\* The addresses whose content the last call changed.
Changed ==
  {k \in DOMAIN memory \cup DOMAIN last.pre.memory :
     Read(memory, k) # Read(last.pre.memory, k)}

\* C30: every push writes at 0x0100 | SP and then decrements SP modulo
\* 256, every pop increments SP modulo 256 and then reads 0x0100 | SP, so
\* PHA, PHP, JSR, BRK, PLA, PLP, RTS and RTI access only 0x0100..0x01FF, a
\* push at SP = 0x00 leaves 0xFF and a pop at SP = 0xFF leaves 0x00.
C30_StackWithinPage ==
  /\ (Executed /\ last.opcode \in DOMAIN Pushes) =>
       /\ sp = (last.pre.sp + 256 - Pushes[last.opcode]) % 256
       /\ Changed \subseteq {PushSlot(i) : i \in 0..(Pushes[last.opcode] - 1)}
       /\ Changed \subseteq 256..511
       /\ Read(memory, PushSlot(0))
            = CASE last.opcode = 72 -> last.pre.a
                [] last.opcode = 8 -> BitOr(last.pre.p, 48)
                [] OTHER -> ((last.pre.pc + 2) % 65536) \div 256
       /\ last.opcode \in {32, 0}
            => Read(memory, PushSlot(1)) = (last.pre.pc + 2) % 256
  /\ (Executed /\ last.opcode \in DOMAIN Pops) =>
       /\ sp = (last.pre.sp + Pops[last.opcode]) % 256
       /\ memory = last.pre.memory
       /\ last.opcode = 104 => a = PoppedByte(1)
       /\ last.opcode \in {40, 64} => BitOr(p, 48) = BitOr(PoppedByte(1), 48)
       /\ last.opcode = 96
            => pc = (PoppedByte(1) + 256 * PoppedByte(2) + 1) % 65536
       /\ last.opcode = 64 => pc = PoppedByte(2) + 256 * PoppedByte(3)

\* PLA at SP = 0xFF, after the PHA that pushed A at SP = 0x00: SP is back
\* at 0x00 and A is the byte at 0x0100.
C30_WitnessWrap ==
  /\ Executed
  /\ last.opcode = 104
  /\ last.pre.sp = 255
  /\ last.pre.TotalCycles > 0
  /\ sp = 0
  /\ a = 129
  /\ Read(memory, 256) = 129

\* The address of the last byte of the instruction the last call fetched,
\* when that instruction is three bytes long.
JsrReturn == u16(last.pre.pc + 2)

C32_BrkRtiRoundTrip ==
  Answered(64) =>
    /\ pc = last.mark.value
    /\ sp = last.mark.sp
    /\ Restorable(p) = Restorable(last.mark.status)
    /\ Bit(p, 5) = 1
    /\ Bit(p, 4) = 0

\* RTI as the first instruction of the handler, after a BRK at $02FE with
\* SP = 0x01, I clear and B, D, C set: PC is $0300 and I is clear again.
C32_Witness ==
  /\ Answered(64)
  /\ last.pre.TotalCycles = 7
  /\ last.mark.value = 768
  /\ last.mark.sp = 1
  /\ last.mark.status = 57
  /\ Bit(last.pre.p, 2) = 1
  /\ pc = 768
  /\ sp = 1
  /\ p = 41

\* C33: ASL stores (v << 1) mod 256 with C = bit 7 of v, ROL stores
\* ((v << 1) | c) mod 256 with C = bit 7 of v, ROR stores (v >> 1) | (c << 7)
\* with C = bit 0 of v; the accumulator opcodes change A and no memory
\* byte, the memory forms change only the addressed byte and not A.
C33_ShiftRotate ==
  (Executed /\ last.opcode \in DOMAIN instructions
            /\ instructions[last.opcode].opc \in {"ASL", "ROL", "ROR"}) =>
    LET opc == instructions[last.opcode].opc
        onA == last.opcode \in {10, 42, 106}
        v == IF onA THEN last.pre.a ELSE Read(last.pre.memory, EffectiveAddress)
        cin == Bit(last.pre.p, 0)
        expected == CASE opc = "ASL" -> (2 * v) % 256
                      [] opc = "ROL" -> (2 * v + cin) % 256
                      [] opc = "ROR" -> (v \div 2) + 128 * cin
        cout == IF opc = "ROR" THEN v % 2 ELSE Bit(v, 7)
    IN /\ Bit(p, 0) = cout
       /\ onA => (a = expected /\ memory = last.pre.memory)
       /\ ~onA => /\ Read(memory, EffectiveAddress) = expected
                  /\ Changed \subseteq {EffectiveAddress}
                  /\ a = last.pre.a

\* ROR of the byte 0x01 at $0217 with carry set: 0x80 is stored, C is set,
\* A keeps its value.
C33_WitnessRorMemory ==
  /\ Executed
  /\ last.opcode = 126
  /\ EffectiveAddress = 535
  /\ Read(last.pre.memory, 535) = 1
  /\ Bit(last.pre.p, 0) = 1
  /\ Read(memory, 535) = 128
  /\ Bit(p, 0) = 1
  /\ a = 170

\* The register a store instruction writes.
StoredRegister ==
  CASE instructions[last.opcode].opc = "STA" -> last.pre.a
    [] instructions[last.opcode].opc = "STX" -> last.pre.x
    [] instructions[last.opcode].opc = "STY" -> last.pre.y

\* C34: TXS copies X into SP, STA, STX and STY write the register to the
\* effective address, and all four leave every bit of P unchanged.
C34_StoresKeepFlags ==
  /\ (Executed /\ last.opcode = 154) =>
       /\ sp = last.pre.x
       /\ p = last.pre.p
       /\ x = last.pre.x
       /\ memory = last.pre.memory
  /\ (Executed /\ last.opcode \in DOMAIN instructions
               /\ instructions[last.opcode].opc \in {"STA", "STX", "STY"}) =>
       /\ Read(memory, EffectiveAddress) = StoredRegister
       /\ Changed \subseteq {EffectiveAddress}
       /\ p = last.pre.p
       /\ a = last.pre.a
       /\ x = last.pre.x
       /\ y = last.pre.y
       /\ sp = last.pre.sp

\* TXS of X = 0x00 with Z clear: SP becomes 0x00 and Z stays clear.
C34_WitnessTxsZero ==
  /\ Executed
  /\ last.opcode = 154
  /\ last.pre.x = 0
  /\ last.pre.sp = 255
  /\ Bit(last.pre.p, 1) = 0
  /\ sp = 0
  /\ Bit(p, 1) = 0

\* The processor before the last call.
PreCpu ==
  [a |-> last.pre.a, x |-> last.pre.x, y |-> last.pre.y, sp |-> last.pre.sp,
   pc |-> last.pre.pc, p |-> last.pre.p, memory |-> last.pre.memory,
   additionalCycles |-> last.pre.additionalCycles]

\* A detector in which the next push of v completes a repetition.
Saturated(v) ==
  [buffer |-> [i \in 0..(trapDetectorBufferSize - 1) |-> v], index |-> 0]

\* What the last call would have done with trap detection on and a
\* detector about to report a trap at the PC of the call.
TrapReadyRun ==
  cycle(PreCpu, last.pre.halt, Saturated(last.pre.pc), last.pre.TotalCycles,
        StopOnPC, TRUE)

\* C35: Cycle() checks the stop address, then the opcode table, then the
\* trap detector: at PC = StopOnPC (nonzero) it sets HaltSuccess whatever
\* the byte there and whatever the detector holds, and neither in the stop
\* case nor in the unknown-opcode case is PC pushed into the detector.
C35_CheckOrder ==
  /\ (CalledCycle /\ StopOnPC # 0 /\ last.pre.pc = StopOnPC) =>
       /\ last.outcome = "stop"
       /\ halt = HaltSuccess
       /\ trapDetector = last.pre.trapDetector
       /\ TrapReadyRun.halt = HaltSuccess
       /\ TrapReadyRun.trapDetector = Saturated(last.pre.pc)
  /\ (CalledCycle /\ last.outcome = "unknown") =>
       /\ halt = HaltUnknownInstruction
       /\ trapDetector = last.pre.trapDetector
       /\ TrapReadyRun.halt = HaltUnknownInstruction
       /\ TrapReadyRun.trapDetector = Saturated(last.pre.pc)

\* With trap detection on, a call at the stop address $DD02 found a byte
\* there that has no table entry, after earlier instructions had been
\* pushed into the detector.
C35_WitnessStopOnUnknown ==
  /\ CalledCycle
  /\ TrapDetector
  /\ StopOnPC # 0
  /\ last.pre.pc = StopOnPC
  /\ FetchedOpcode \notin DOMAIN instructions
  /\ last.pre.trapDetector # NewTrapDetector
  /\ last.pre.halt = Continue
  /\ halt = HaltSuccess

\* C36: with trap detection on and the stop address never reached, a run
\* that stays in a loop of at most 8 instructions is eventually halted
\* with HaltTrap.
C36_ShortLoopsReported == <>(halt = HaltTrap)

\* The last call was the first one made on the processor since it was
\* constructed and set up.
FirstCall ==
  /\ CalledCycle
  /\ hostCalls = 0
  /\ last.pre.halt = Continue
  /\ last.pre.TotalCycles = 0
  /\ last.pre.trapDetector = NewTrapDetector

\* C37: HaltTrap is raised only after at least 16 instruction PCs have been
\* pushed into the detector; in particular the first Cycle() call on a
\* freshly constructed processor never reports a trap, whatever its PC.
C37_NoTrapOnFirstFetch ==
  FirstCall => (last.outcome # "trap" /\ halt # HaltTrap)

\* The bytes of the outstanding PHAs are on the stack, each at the SP of
\* its push.
PushedBytesKept ==
  \A i \in 1..Len(last.marks) :
     last.marks[i].kind = "PHA"
       => Read(memory, stackAddress(last.marks[i].sp)) = last.marks[i].value

\* C38: the stack is last-in first-out from any starting SP: after n PHAs
\* pushing b1..bn, n PLAs load A with bn, ..., b1 in that order and leave
\* SP at its starting value.
C38_StackLifo ==
  /\ PushedBytesKept
  /\ Answered(104) =>
       /\ a = last.mark.value
       /\ sp = last.mark.sp
       /\ Read(last.pre.memory, stackAddress(last.mark.sp)) = last.mark.value
       /\ \A i \in 1..Len(last.marks) :
            last.marks[i].kind = "PHA"
              => last.marks[i].sp # last.mark.sp

\* The fourth of four PLAs, after four PHAs from SP = 0x01 that wrapped to
\* 0xFD: A is the first byte pushed and SP is 0x01 again.
C38_WitnessFour ==
  /\ Answered(104)
  /\ last.marks = <<>>
  /\ last.pre.pc = 56591
  /\ last.pre.a = 34
  /\ last.pre.sp = 0
  /\ a = 17
  /\ sp = 1

\* The 151 documented opcode bytes of the 6502, one row for each high
\* nibble.
DocumentedOpcodes ==
  {
   0, 1, 5, 6, 8, 9, 10, 13, 14,
   16, 17, 21, 22, 24, 25, 29, 30,
   32, 33, 36, 37, 38, 40, 41, 42, 44, 45, 46,
   48, 49, 53, 54, 56, 57, 61, 62,
   64, 65, 69, 70, 72, 73, 74, 76, 77, 78,
   80, 81, 85, 86, 88, 89, 93, 94,
   96, 97, 101, 102, 104, 105, 106, 108, 109, 110,
   112, 113, 117, 118, 120, 121, 125, 126,
   129, 132, 133, 134, 136, 138, 140, 141, 142,
   144, 145, 148, 149, 150, 152, 153, 154, 157,
   160, 161, 162, 164, 165, 166, 168, 169, 170, 172, 173, 174,
   176, 177, 180, 181, 182, 184, 185, 186, 188, 189, 190,
   192, 193, 196, 197, 198, 200, 201, 202, 204, 205, 206,
   208, 209, 213, 214, 216, 217, 221, 222,
   224, 225, 228, 229, 230, 232, 233, 234, 236, 237, 238,
   240, 241, 245, 246, 248, 249, 253, 254
  }

\* C39: every documented opcode byte has an entry in the instruction table:
\* Cycle() sets HaltUnknownInstruction only for undocumented opcode bytes.
C39_DocumentedOpcodesDecoded ==
  (CalledCycle /\ last.outcome = "unknown")
    => FetchedOpcode \notin DocumentedOpcodes

\* The instructions that write memory: stores, read-modify-write
\* instructions in memory mode, and pushes.
Stores == {"STA", "STX", "STY"}

ReadModifyWrite == {"INC", "DEC", "ASL", "LSR", "ROL", "ROR"}

WritesOperand(ins) ==
  \/ ins.opc \in Stores
  \/ (ins.opc \in ReadModifyWrite /\ ins.mode # "AM_IMPLIED")

\* C40: stores and read-modify-write instructions in memory mode change at
\* most the byte at their effective address, PHA, PHP, JSR and BRK at most
\* their stack bytes, and every other instruction leaves all of memory
\* unchanged.
C40_MemoryFrame ==
  (Executed /\ last.opcode \in DOMAIN instructions) =>
    IF WritesOperand(instructions[last.opcode])
    THEN Changed \subseteq {EffectiveAddress}
    ELSE IF last.opcode \in DOMAIN Pushes
    THEN Changed \subseteq {PushSlot(i) : i \in 0..(Pushes[last.opcode] - 1)}
    ELSE Changed = {}

\* A PLA pulled a nonzero byte and left it, and all of memory, in place.
C40_WitnessPull ==
  /\ Executed
  /\ last.opcode = 104
  /\ PoppedByte(1) # 0
  /\ a = PoppedByte(1)
  /\ Read(memory, PopSlot(1)) = a
  /\ Changed = {}

====
